---- MODULE Spec2Model ----
(***************************************************************************)
(* skill-manager: the synchronisation engine.                              *)
(*                                                                         *)
(* State: the skill directories under skillsPath (files and the metadata   *)
(* sidecar), the configuration, the heads of the remote branches, and the  *)
(* position of syncSkills in its loop over config.skills.                  *)
(* Operations: shouldSkipSync, the four fetch strategies, the body of the  *)
(* syncSkills loop, and what the user and the remote do between runs.      *)
(***************************************************************************)
EXTENDS Integers, Sequences, FiniteSets, TLC

\* ------------------------------------------------------------------ bounds
MaxVersion == 2    \* a branch head moves at most MaxVersion - 1 times
MaxRuns == 2       \* invocations of syncSkills
MaxEnv == 1        \* things that happen between the runs: a push to the remote,
                   \* a local change to a skill directory, an edit of the config

\* --------------------------------------------------------------- constants
None == "none"                               \* JavaScript undefined
Absent == "ABSENT"                           \* no such file
DEFAULT_SKILL_FILENAME == "SKILL.md"
METADATA_FILENAME == ".skill-manager.json"
DEFAULT_GIT_REF_master == "master"
DEFAULT_GIT_REF == "main"
VALID_SKILL_TYPES == {"GIT_FILE", "GIT_FOLDER", "GIT_REPO", "GIST"}
MARKDOWN_EXTENSIONS == {".md", ".markdown"}

\* Host names are sequences of labels, so that the allow-list's
\* "hostname === domain || hostname.endsWith('.' + domain)" can be computed.
GitHubHost == <<"github", "com">>
GitLabHost == <<"gitlab", "com">>
GistHost == <<"gist", "github", "com">>
RawHost == <<"raw", "githubusercontent", "com">>
ApiHost == <<"api", "github", "com">>
TrustedDomains == {GitHubHost, GistHost, RawHost, ApiHost}

\* ------------------------------------------------------------ the universe
\* A remote URL: its host and the segments of its path.
RepoUrl == [host |-> GitHubHost, segs |-> <<"o", "r">>]
BlobTagUrl == [host |-> GitHubHost, segs |-> <<"o", "r", "blob", "v1", "doc.md">>]
TreeMainUrl == [host |-> GitHubHost, segs |-> <<"o", "r", "tree", "main", "skills">>]
LabRepoUrl == [host |-> GitLabHost, segs |-> <<"o", "r">>]
GistUrl == [host |-> GistHost, segs |-> <<"u", "g1">>]
Remotes == {RepoUrl, BlobTagUrl, TreeMainUrl, LabRepoUrl, GistUrl}
NoRemote == [host |-> <<>>, segs |-> <<>>]

Branches == {"main"}            \* moving refs of the remote repository
Tags == {"v1"}                  \* immutable refs (tags, commits, gist revisions)
Refs == Branches \cup Tags
TagContent == "T"               \* what an immutable ref holds
LocalContent == "x"             \* what a local edit writes

SkillConfigs == [type : VALID_SKILL_TYPES, remote : Remotes, ref : Refs \cup {None},
                 filename : {None}]

\* Skill names are sequences of characters.
SafeChars == {"a", "b", "-", "_", "0"}
RawNames == {<<"a">>, <<".", ".">>}
SkillNames == {<<"a">>}

\* Relative paths of the files a skill directory may hold, in the order
\* Array.prototype.sort puts them (UTF-16 code units: "." < "S" < "d" < "e").
SortedNames ==
  <<".env", ".git/HEAD", ".skill-manager.json", "SKILL.md", "docs/.cache/x", "docs/.env",
    "extra.md">>
\* The files of the skill directories that syncSkills works on.
Paths == {".git/HEAD", "SKILL.md", "extra.md"}
\* The directories above a file.
PathDirs(p) ==
  CASE p = ".git/HEAD" -> <<".git">>
    [] p = "docs/.cache/x" -> <<"docs", ".cache">>
    [] p = "docs/.env" -> <<"docs">>
    [] OTHER -> <<>>
StartsWithDot(n) == n \in {".git", ".cache", ".env", ".skill-manager.json"}

\* ---------------------------------------------------------------- url-parser
IsSuffix(d, h) ==
  /\ Len(d) <= Len(h)
  /\ SubSeq(h, Len(h) - Len(d) + 1, Len(h)) = d

Platform(host) ==
  IF IsSuffix(GitHubHost, host) THEN "github"
  ELSE IF IsSuffix(GitLabHost, host) THEN "gitlab"
  ELSE "generic"

\* parseGitUrl: owner and repository, and after a blob or tree marker the
\* embedded ref and the path. ok = FALSE stands for the thrown INVALID_URL.
ParseGitUrl(remote, type) ==
  LET segs == remote.segs
      marked == Len(segs) >= 3 /\ segs[3] \in {"blob", "tree"}
  IN [ok |-> Len(remote.host) > 0 /\ Len(segs) >= 2,
      host |-> remote.host,
      platform |-> Platform(remote.host),
      ref |-> IF marked /\ Len(segs) >= 4 THEN segs[4] ELSE None,
      path |-> IF marked /\ Len(segs) >= 5 THEN SubSeq(segs, 5, Len(segs)) ELSE <<>>]

\* parseGistUrl: the gist id, the last segment of a gist.github.com URL.
ParseGistUrl(remote) ==
  [ok |-> remote.host = GistHost /\ Len(remote.segs) \in {1, 2},
   id |-> IF Len(remote.segs) > 0 THEN remote.segs[Len(remote.segs)] ELSE None]

ResolveRefUrlFirst(configRef, urlRef) ==
  IF urlRef # None THEN urlRef
  ELSE IF configRef # None THEN configRef
  ELSE DEFAULT_GIT_REF

\* resolveRef: config > url > default.
ResolveRef(configRef, urlRef) ==
  IF configRef # None THEN configRef
  ELSE IF urlRef # None THEN urlRef
  ELSE DEFAULT_GIT_REF

\* The host of the URL buildRawUrl constructs.
BuildRawUrlHost(parsed) ==
  IF parsed.platform = "github" THEN RawHost ELSE parsed.host

\* The host of the URL buildRepositoryUrl constructs.
BuildRepositoryUrlHost(parsed) == parsed.host

\* ---------------------------------------------------------------- validation
HasTraversal(name) ==
  \E k \in 1..(Len(name) - 1) : name[k] = "." /\ name[k + 1] = "."

RECURSIVE TrimStart(_)
TrimStart(s) == IF s # <<>> /\ Head(s) = " " THEN TrimStart(Tail(s)) ELSE s

RECURSIVE TrimEnd(_)
TrimEnd(s) ==
  IF s # <<>> /\ s[Len(s)] = " " THEN TrimEnd(SubSeq(s, 1, Len(s) - 1)) ELSE s

TrimStartOnly(s) == TrimStart(s)

Trim(s) == TrimEnd(TrimStart(s))

\* sanitizeSkillName: ok = FALSE stands for the thrown VALIDATION_ERROR.
SanitizeSkillName(name) ==
  LET trimmed == Trim(name)
      safe == trimmed # <<>> /\ \A k \in 1..Len(trimmed) : trimmed[k] \in SafeChars
  IN [ok |-> name # <<>> /\ ~HasTraversal(name) /\ safe, name |-> trimmed]

\* validateTrustedUrl: "" when the host is on the allow-list.
ValidateTrustedUrl(host) ==
  IF \E d \in TrustedDomains : IsSuffix(d, host) THEN "" ELSE "VALIDATION_ERROR"

\* validateSkillConfig: the shape of one skill's configuration.
ValidateSkillConfig(cfg) ==
  cfg.type \in VALID_SKILL_TYPES /\ cfg.remote # NoRemote

\* ---------------------------------------------------------- metadata-manager
NoMeta ==
  [state |-> "absent", remote |-> NoRemote, type |-> None, ref |-> None,
   lastSync |-> None, contentHash |-> None]
CorruptMeta == [NoMeta EXCEPT !.state = "corrupt"]
NoFiles == [p \in Paths |-> Absent]
NoDir == [exists |-> FALSE, files |-> NoFiles, meta |-> NoMeta]

MetadataExists(dir) == dir.meta.state # "absent"

LoadMetadataWithoutFieldCheck(dir) ==
  IF dir.meta.state # "json" THEN NoMeta ELSE dir.meta

\* loadMetadata: null (state "absent") when the sidecar is missing, does not
\* parse, or lacks a required field.
LoadMetadata(dir) ==
  LET m == dir.meta
  IN IF m.state # "json" THEN NoMeta
     ELSE IF m.remote = NoRemote \/ m.type = None \/ m.lastSync = None
             \/ m.contentHash = None THEN NoMeta
     ELSE m

SaveMetadataNoRef(dir, remote, ref, type, hash) ==
  [dir EXCEPT !.meta = [state |-> "json", remote |-> remote, type |-> type,
                        ref |-> None, lastSync |-> "now", contentHash |-> hash]]

\* saveMetadata: JSON.stringify drops an undefined ref, which loads as undefined.
SaveMetadata(dir, remote, ref, type, hash) ==
  [dir EXCEPT !.meta = [state |-> "json", remote |-> remote, type |-> type,
                        ref |-> ref, lastSync |-> "now", contentHash |-> hash]]

\* getAllFiles: the files not below a directory whose name starts with '.';
\* a readdir that fails is caught and yields no files.
RECURSIVE AnyHidden(_)
AnyHidden(dirs) ==
  IF dirs = <<>> THEN FALSE ELSE StartsWithDot(Head(dirs)) \/ AnyHidden(Tail(dirs))

ListedBelowNoHiddenTopDirectory(dir, p) ==
  IF p = METADATA_FILENAME THEN dir.meta.state # "absent"
  ELSE /\ p \in DOMAIN dir.files /\ dir.files[p] # Absent
       /\ ~(PathDirs(p) # <<>> /\ StartsWithDot(Head(PathDirs(p))))

Listed(dir, p) ==
  IF p = METADATA_FILENAME THEN dir.meta.state # "absent"
  ELSE p \in DOMAIN dir.files /\ dir.files[p] # Absent /\ ~AnyHidden(PathDirs(p))

GetAllFiles(dir, io) ==
  IF io = "readdir" \/ ~dir.exists THEN <<>>
  ELSE SelectSeq(SortedNames, LAMBDA p : Listed(dir, p))

\* The bytes fed to the digest: for each file of the sorted list, except the
\* sidecar, its relative path and then its content.
RECURSIVE HashStream(_, _)
HashStream(dir, files) ==
  IF files = <<>> THEN ""
  ELSE LET p == Head(files)
       IN IF p = METADATA_FILENAME THEN HashStream(dir, Tail(files))
          ELSE (p \o dir.files[p]) \o HashStream(dir, Tail(files))

\* hash.digest('hex'): SHA-256 is taken as injective on the bytes it is fed.
Sha256Hex(stream) == "sha256(" \o stream \o ")"

\* calculateContentHash: ok = FALSE stands for the thrown FILE_SYSTEM_ERROR
\* (a file that cannot be read).
CalculateContentHash(dir, io) ==
  [ok |-> io # "readFile", hash |-> Sha256Hex(HashStream(dir, GetAllFiles(dir, io)))]

\* --------------------------------------------------------------- skip-checker
\* hasExplicitRefInConfig
HasExplicitRefInConfig(config) ==
  IF config.ref # None THEN TRUE
  ELSE IF config.type \in {"GIT_FILE", "GIT_FOLDER"}
    THEN LET parsed == ParseGitUrl(config.remote, config.type)
         IN IF ~parsed.ok THEN FALSE ELSE parsed.ref # None
  ELSE FALSE

ResolveRefForSkillUrlFirst(config) ==
  IF config.type = "GIST" THEN config.ref
  ELSE LET parsed == ParseGitUrl(config.remote, config.type)
       IN IF parsed.ok THEN ResolveRefUrlFirst(config.ref, parsed.ref) ELSE config.ref

\* resolveRefForSkill
ResolveRefForSkill(config) ==
  IF config.type = "GIST" THEN config.ref
  ELSE LET parsed == ParseGitUrl(config.remote, config.type)
       IN IF parsed.ok THEN ResolveRef(config.ref, parsed.ref) ELSE config.ref

\* A template literal prints undefined as "undefined".
Show(x) == IF x = None THEN "undefined" ELSE x

\* SkipCheckResult
Decision(skip, reason, interact) ==
  [shouldSkip |-> skip, reason |-> reason, needsInteraction |-> interact]

ShouldSkipSyncNoTypeCheck(config, dir, io) ==
  LET metadata == LoadMetadata(dir)
      currentRef == ResolveRefForSkill(config)
      currentHash == CalculateContentHash(dir, io)
  IN IF ~dir.exists \/ ~MetadataExists(dir) \/ ~HasExplicitRefInConfig(config)
        \/ metadata.state = "absent" \/ metadata.remote # config.remote
        \/ metadata.ref # currentRef \/ ~currentHash.ok
       THEN Decision(FALSE, "no", FALSE)
     ELSE IF metadata.contentHash # currentHash.hash
       THEN Decision(FALSE, "local modifications detected", TRUE)
     ELSE Decision(TRUE, "already synced to " \o Show(currentRef), FALSE)

ShouldSkipSyncAlwaysAsk(config, dir, io) ==
  LET metadata == LoadMetadata(dir)
      currentRef == ResolveRefForSkill(config)
      currentHash == CalculateContentHash(dir, io)
  IN IF ~dir.exists \/ ~MetadataExists(dir) \/ ~HasExplicitRefInConfig(config)
        \/ metadata.state = "absent" \/ metadata.remote # config.remote
        \/ metadata.type # config.type \/ metadata.ref # currentRef
       THEN Decision(FALSE, "no", FALSE)
     ELSE IF ~currentHash.ok \/ metadata.contentHash # currentHash.hash
       THEN Decision(FALSE, "local modifications detected", TRUE)
     ELSE Decision(TRUE, "already synced to " \o Show(currentRef), FALSE)

\* shouldSkipSync. io is what the file system does while the hash is computed:
\* "ok", "readdir" (a listing fails, and is swallowed) or "readFile" (a read
\* fails, and calculateContentHash throws).
ShouldSkipSync(config, dir, io) ==
  LET metadata == LoadMetadata(dir)
      currentRef == ResolveRefForSkill(config)
      currentHash == CalculateContentHash(dir, io)
  IN IF ~dir.exists
       THEN Decision(FALSE, "skill directory does not exist", FALSE)
     ELSE IF ~MetadataExists(dir)
       THEN Decision(FALSE, "no metadata found (first-time sync)", FALSE)
     ELSE IF ~HasExplicitRefInConfig(config)
       THEN Decision(FALSE, "no explicit ref specified (tracking branch)", FALSE)
     ELSE IF metadata.state = "absent"
       THEN Decision(FALSE, "metadata is invalid or corrupted", FALSE)
     ELSE IF metadata.remote # config.remote
       THEN Decision(FALSE, "remote URL has changed", FALSE)
     ELSE IF metadata.type # config.type
       THEN Decision(FALSE, "skill type has changed", FALSE)
     ELSE IF metadata.ref # currentRef
       THEN Decision(FALSE, "ref has changed (" \o Show(metadata.ref) \o " -> "
                             \o Show(currentRef) \o ")", FALSE)
     ELSE IF ~currentHash.ok
       THEN Decision(FALSE, "failed to verify content integrity", FALSE)
     ELSE IF metadata.contentHash # currentHash.hash
       THEN Decision(FALSE, "local modifications detected", TRUE)
     ELSE Decision(TRUE, "already synced to " \o Show(currentRef), FALSE)

\* --------------------------------------------------------------- file-manager
SkillsPath == <<"skills">>
TempDir == <<"tmp", "skill-manager-clone">>

\* The path segment a skill name contributes: path.resolve cares only whether
\* it is "..".
NameSegment(name) == IF name = <<".", ".">> THEN ".." ELSE "skill"
SkillDirPath(name) == SkillsPath \o <<NameSegment(name)>>

\* path.resolve on the segments of a path.
RECURSIVE ResolvePath(_, _)
ResolvePath(done, rest) ==
  IF rest = <<>> THEN done
  ELSE IF Head(rest) = ".."
    THEN ResolvePath(IF done = <<>> THEN done ELSE SubSeq(done, 1, Len(done) - 1),
                     Tail(rest))
  ELSE IF Head(rest) = "." THEN ResolvePath(done, Tail(rest))
  ELSE ResolvePath(Append(done, Head(rest)), Tail(rest))

\* The string of a resolved path.
RECURSIVE JoinPath(_)
JoinPath(segs) == IF segs = <<>> THEN "" ELSE ("/" \o Head(segs)) \o JoinPath(Tail(segs))

\* String.prototype.startsWith
StartsWith(s, prefix) == Len(prefix) <= Len(s) /\ SubSeq(s, 1, Len(prefix)) = prefix

\* FILE_SIZE_LIMITS.MAX_FILE_SIZE: 50 * 1024 * 1024 bytes
MAX_FILE_SIZE == 52428800

ValidateFileSizeInclusive(sizeBytes, limitBytes) ==
  IF sizeBytes >= limitBytes THEN "FILE_SIZE_EXCEEDED" ELSE ""

\* validateFileSize: throws FILE_SIZE_EXCEEDED when sizeBytes > limitBytes
ValidateFileSize(sizeBytes, limitBytes) ==
  IF sizeBytes > limitBytes THEN "FILE_SIZE_EXCEEDED" ELSE ""

ValidateFilePathAccepting(basePath, targetPath) == ""

\* validateFilePath: "" when the resolved target, as a string, starts with the
\* resolved base.
ValidateFilePath(basePath, targetPath) ==
  LET resolvedBase == JoinPath(ResolvePath(<<>>, basePath))
      resolvedTarget == JoinPath(ResolvePath(<<>>, targetPath))
  IN IF StartsWith(resolvedTarget, resolvedBase) THEN "" ELSE "VALIDATION_ERROR"

EnsureSkillDirectory(dir) == [dir EXCEPT !.exists = TRUE]
ClearDirectory(dir) == [exists |-> TRUE, files |-> NoFiles, meta |-> NoMeta]
WriteSkillFile(dir, filename, content) == [dir EXCEPT !.files[filename] = content]
CopyDirectory(src, dir) ==
  [dir EXCEPT !.files = [p \in Paths |-> IF src[p] # Absent THEN src[p] ELSE dir.files[p]]]
\* removeDirectory(path.join(skillDir, '.git'))
RemoveGitDirectory(dir) ==
  [dir EXCEPT !.files = [p \in Paths |->
      IF PathDirs(p) # <<>> /\ Head(PathDirs(p)) = ".git" THEN Absent ELSE dir.files[p]]]

\* ------------------------------------------------------------------ the remote
\* What a ref of the remote holds: a branch its head, a tag its fixed content.
RemoteContent(heads, ref) ==
  IF ref \in Branches THEN ToString(heads[ref]) ELSE TagContent
\* A clone at a ref: the work tree and the .git directory.
RepoFiles(c) == [p \in Paths |-> c]
\* The sub-folder of the clone that GIT_FOLDER copies.
FolderFiles(c) == [p \in Paths |-> IF PathDirs(p) = <<>> THEN c ELSE Absent]
\* The files of a gist, in the order the API returns them.
GistFileSets(c) ==
  {<<[filename |-> "notes.txt", content |-> c], [filename |-> "SKILL.md", content |-> "S" \o c]>>,
   <<[filename |-> "notes.txt", content |-> c], [filename |-> "a.md", content |-> "A" \o c]>>,
   <<[filename |-> "notes.txt", content |-> c]>>}
EndsWith(s, suffix) ==
  Len(suffix) <= Len(s) /\ SubSeq(s, Len(s) - Len(suffix) + 1, Len(s)) = suffix

\* String.prototype.toLowerCase, on the file names of the universe.
ToLowerCase(n) ==
  CASE n = "SKILL.md" -> "skill.md"
    [] n = "B.MD" -> "b.md"
    [] OTHER -> n

IsMarkdownNameCaseSensitive(n) == \E ext \in MARKDOWN_EXTENSIONS : EndsWith(n, ext)

\* GIST_CONFIG.MARKDOWN_EXTENSIONS.some(ext => filename.toLowerCase().endsWith(ext))
IsMarkdownName(n) == \E ext \in MARKDOWN_EXTENSIONS : EndsWith(ToLowerCase(n), ext)

\* ------------------------------------------------------------------- fetchers
\* The progress of a fetch: the skill directory, the steps taken so far (the
\* last one is the step that threw, if err is set), the error thrown, and
\* whether a temporary clone exists, the hosts validateTrustedUrl has passed,
\* and the network calls and clones made (the host, and whether it had been
\* validated by then).
Begin(dir) ==
  [dir |-> dir, trace |-> <<>>, err |-> "", tmp |-> FALSE, validated |-> {}, net |-> <<>>]

\* A step that throws err when err is not "".
Check(r, step, err) ==
  IF r.err # "" THEN r
  ELSE [r EXCEPT !.trace = Append(@, step), !.err = err]

\* What a step that succeeds does to the skill directory d; arg is the content
\* it brings, or the metadata to save.
Effect(step, d, arg) ==
  CASE step = "ensureSkillDirectory" -> EnsureSkillDirectory(d)
    [] step = "clearDirectory" -> ClearDirectory(d)
    [] step = "writeSkillFile" -> WriteSkillFile(d, DEFAULT_SKILL_FILENAME, arg)
    [] step = "clone" -> [d EXCEPT !.files = RepoFiles(arg)]
    [] step = "removeDirectory" -> RemoveGitDirectory(d)
    [] step = "copyDirectory" -> CopyDirectory(FolderFiles(arg), d)
    [] step = "saveMetadata" ->
         SaveMetadata(d, arg.remote, arg.ref, arg.type, CalculateContentHash(d, "ok").hash)
    [] OTHER -> d

\* A step that the environment may fail (env.failAt names it), and that has its
\* effect on the directory when it does not.
Do(r, step, env, err, arg) ==
  IF r.err # "" THEN r
  ELSE IF env.failAt = step THEN [r EXCEPT !.trace = Append(@, step), !.err = err]
  ELSE [r EXCEPT !.trace = Append(@, step), !.dir = Effect(step, @, arg)]

\* validateTrustedUrl on the URL with this host.
Validate(r, host) ==
  IF r.err # "" THEN r
  ELSE [r EXCEPT !.trace = Append(@, "validateTrustedUrl"),
                 !.err = ValidateTrustedUrl(host),
                 !.validated = IF ValidateTrustedUrl(host) = "" THEN @ \cup {host} ELSE @]

\* A network call or a clone (after its retries) to this host. A clone into the
\* temporary directory (temp) leaves that directory behind and the skill
\* directory alone.
Net(r, step, env, err, host, temp, arg) ==
  IF r.err # "" THEN r
  ELSE [r EXCEPT !.trace = Append(@, step),
                 !.net = Append(@, [host |-> host, checked |-> host \in r.validated]),
                 !.tmp = temp,
                 !.err = IF env.failAt = step THEN err ELSE "",
                 !.dir = IF env.failAt = step \/ temp THEN @ ELSE Effect(step, @, arg)]

HashAndSaveAfterError(r, env, remote, ref, type) ==
  [r EXCEPT !.trace = Append(Append(@, "calculateContentHash"), "saveMetadata"),
            !.dir = Effect("saveMetadata", @, [remote |-> remote, ref |-> ref, type |-> type])]

\* saveMetadata(skillDir, {..., contentHash: await calculateContentHash(skillDir)})
HashAndSave(r, env, remote, ref, type) ==
  Do(Do(r, "calculateContentHash", env, "FILE_SYSTEM_ERROR", None),
     "saveMetadata", env, "FILE_SYSTEM_ERROR",
     [remote |-> remote, ref |-> ref, type |-> type])

\* fetchGitFile
FetchGitFile(name, config, dir, env) ==
  LET parsed == ParseGitUrl(config.remote, "GIT_FILE")
      ref == ResolveRef(config.ref, parsed.ref)
      content == RemoteContent(env.heads, ref)
      r1 == Check(Begin(dir), "parseGitUrl", IF parsed.ok THEN "" ELSE "INVALID_URL")
      r2 == Check(r1, "requirePath", IF parsed.path = <<>> THEN "INVALID_URL" ELSE "")
      r3 == Validate(r2, BuildRawUrlHost(parsed))
      r4 == Net(r3, "fetch", env, "FETCH_FAILED", BuildRawUrlHost(parsed), FALSE, None)
      r5 == Do(r4, "responseOk", env, "FETCH_FAILED", None)
      r6 == Do(r5, "validateFileSize", env, "FILE_SIZE_EXCEEDED", None)
      r7 == Do(r6, "ensureSkillDirectory", env, "FETCH_FAILED", None)
      r8 == Do(r7, "writeSkillFile", env, "FETCH_FAILED", content)
  IN HashAndSave(r8, env, config.remote, ref, config.type)

\* fetchGitRepo
FetchGitRepo(name, config, dir, env) ==
  LET parsed == ParseGitUrl(config.remote, "GIT_REPO")
      ref == ResolveRef(config.ref, None)
      content == RemoteContent(env.heads, ref)
      r1 == Check(Begin(dir), "parseGitUrl", IF parsed.ok THEN "" ELSE "INVALID_URL")
      r2 == Do(r1, "ensureSkillDirectory", env, "GIT_ERROR", None)
      r3 == Do(r2, "clearDirectory", env, "GIT_ERROR", None)
      r4 == Check(r3, "validateFilePath", ValidateFilePath(SkillsPath, SkillDirPath(name)))
      r5 == Net(r4, "clone", env, "GIT_ERROR", BuildRepositoryUrlHost(parsed), FALSE,
                content)
      r6 == Do(r5, "removeDirectory", env, "GIT_ERROR", None)
  IN HashAndSave(r6, env, config.remote, ref, config.type)

RemoveTempAtEndOfTry(r, env) ==
  IF r.err # "" THEN r
  ELSE [r EXCEPT !.trace = Append(@, "removeTemp"), !.tmp = (env.failAt = "removeTemp")]

\* The finally block of fetchGitFolder: removeDirectory(tempDir), a failure of
\* which is only logged. It runs once the try block has been entered.
RemoveTemp(r, env) ==
  IF "clone" \notin {r.trace[k] : k \in 1..Len(r.trace)} THEN r
  ELSE [r EXCEPT !.trace = Append(@, "removeTemp"), !.tmp = (env.failAt = "removeTemp")]

\* fetchGitFolder
FetchGitFolder(name, config, dir, env) ==
  LET parsed == ParseGitUrl(config.remote, "GIT_FOLDER")
      ref == ResolveRef(config.ref, parsed.ref)
      content == RemoteContent(env.heads, ref)
      r1 == Check(Begin(dir), "parseGitUrl", IF parsed.ok THEN "" ELSE "INVALID_URL")
      r2 == Check(r1, "requirePath", IF parsed.path = <<>> THEN "INVALID_URL" ELSE "")
      \* try
      r3 == Net(r2, "clone", env, "GIT_ERROR", BuildRepositoryUrlHost(parsed), TRUE, None)
      r4 == Check(r3, "validateSourcePath",
                  ValidateFilePath(TempDir, TempDir \o parsed.path))
      r5 == Do(r4, "ensureSkillDirectory", env, "GIT_ERROR", None)
      r6 == Do(r5, "clearDirectory", env, "GIT_ERROR", None)
      r7 == Check(r6, "validateFilePath", ValidateFilePath(SkillsPath, SkillDirPath(name)))
      r8 == Do(r7, "copyDirectory", env, "GIT_ERROR", content)
      \* finally
  IN RemoveTemp(HashAndSave(r8, env, config.remote, ref, config.type), env)

\* gist.files[filename]
GistFile(files, filename) ==
  LET hits == SelectSeq(files, LAMBDA f : f.filename = filename)
  IN IF hits = <<>> THEN [filename |-> None, content |-> None] ELSE Head(hits)

\* The first of the files whose name has a markdown extension.
FirstMarkdown(mdFiles) ==
  IF mdFiles # <<>> THEN Head(mdFiles) ELSE [filename |-> None, content |-> None]

\* The target file of fetchGist: the configured file name, else SKILL.md, else
\* the first markdown file; filename None when there is none.
GistTarget(files, config) ==
  IF config.filename # None THEN GistFile(files, config.filename)
  ELSE IF GistFile(files, DEFAULT_SKILL_FILENAME).filename # None
    THEN GistFile(files, DEFAULT_SKILL_FILENAME)
  ELSE FirstMarkdown(SelectSeq(files, LAMBDA f : IsMarkdownName(f.filename)))

\* fetchGist
FetchGist(name, config, dir, env) ==
  LET gist == ParseGistUrl(config.remote)
      targetFile == GistTarget(env.gist, config)
      r1 == Check(Begin(dir), "parseGistUrl", IF gist.ok THEN "" ELSE "INVALID_URL")
      r2 == Validate(r1, ApiHost)
      r3 == Net(r2, "fetch", env, "FETCH_FAILED", ApiHost, FALSE, None)
      r4 == Do(r3, "responseOk", env, "FETCH_FAILED", None)
      r5 == Check(r4, "selectFile", IF targetFile.filename = None THEN "FETCH_FAILED" ELSE "")
      r6 == Do(r5, "validateFileSize", env, "FILE_SIZE_EXCEEDED", None)
      r7 == Do(r6, "ensureSkillDirectory", env, "FETCH_FAILED", None)
      r8 == Do(r7, "writeSkillFile", env, "FETCH_FAILED", targetFile.content)
  IN HashAndSave(r8, env, config.remote, config.ref, config.type)

\* FetcherFactory.getFetcher(type).fetch(...)
Fetch(name, config, dir, env) ==
  CASE config.type = "GIT_FILE" -> FetchGitFile(name, config, dir, env)
    [] config.type = "GIT_FOLDER" -> FetchGitFolder(name, config, dir, env)
    [] config.type = "GIT_REPO" -> FetchGitRepo(name, config, dir, env)
    [] config.type = "GIST" -> FetchGist(name, config, dir, env)

\* The steps of each strategy that the environment (network, git, file system)
\* can fail.
FailPoints(type) ==
  CASE type = "GIT_FILE" ->
         {"fetch", "responseOk", "validateFileSize", "ensureSkillDirectory",
          "writeSkillFile", "calculateContentHash", "saveMetadata"}
    [] type = "GIT_FOLDER" ->
         {"clone", "ensureSkillDirectory", "clearDirectory", "copyDirectory",
          "calculateContentHash", "saveMetadata", "removeTemp"}
    [] type = "GIT_REPO" ->
         {"ensureSkillDirectory", "clearDirectory", "clone", "removeDirectory",
          "calculateContentHash", "saveMetadata"}
    [] type = "GIST" ->
         {"fetch", "responseOk", "validateFileSize", "ensureSkillDirectory",
          "writeSkillFile", "calculateContentHash", "saveMetadata"}

\* ------------------------------------------------------------------------ sync
\* promptForOverwrite: without a TTY the answer is no.
PromptForOverwrite(tty, answer) == IF ~tty THEN FALSE ELSE answer

NoDecision == Decision(FALSE, "not checked", FALSE)
NoFetch == [trace |-> <<>>, err |-> "", tmp |-> FALSE, net |-> <<>>]
FetchOf(r) == [trace |-> r.trace, err |-> r.err, tmp |-> r.tmp, net |-> r.net]

\* FetchResult
Outcome(name, success, skipped, reason, error) ==
  [skillName |-> name, success |-> success, skipped |-> skipped,
   reason |-> reason, error |-> error]

\* What one iteration of the loop of syncSkills did: the directory after it, the
\* outcome pushed to results, the decision of shouldSkipSync (if it ran), whether
\* the user was asked, and the fetch (if one ran).
Iteration(kind, dir, outcome, decision, asked, fetch) ==
  [kind |-> kind, dir |-> dir, outcome |-> outcome, decision |-> decision,
   asked |-> asked, fetch |-> fetch]

\* shouldForce
ShouldForce(forceSkills, skillName) ==
  forceSkills # {} /\ skillName \in forceSkills

FetchedSwallowingError(skillName, shouldForce, skipCheck, r) ==
  Iteration("fetched", r.dir, Outcome(skillName, TRUE, FALSE, None, None),
            IF shouldForce THEN NoDecision ELSE skipCheck,
            ~shouldForce /\ skipCheck.needsInteraction, FetchOf(r))

\* The fetch of the loop body, and the outcome pushed after it or in the catch
\* block.
Fetched(skillName, shouldForce, skipCheck, r) ==
  Iteration("fetched", r.dir,
            IF r.err = "" THEN Outcome(skillName, TRUE, FALSE, None, None)
            ELSE Outcome(skillName, FALSE, FALSE, None, r.err),
            IF shouldForce THEN NoDecision ELSE skipCheck,
            ~shouldForce /\ skipCheck.needsInteraction, FetchOf(r))

TryBlockDryRunAfterSkipCheck(skillName, skillConfig, dir, dryRun, shouldForce, skipCheck, r, inp) ==
  IF ~ValidateSkillConfig(skillConfig)
    THEN Iteration("invalidConfig", dir,
                   Outcome(skillName, FALSE, FALSE, None, "INVALID_CONFIG"),
                   NoDecision, FALSE, NoFetch)
  ELSE IF ~shouldForce /\ skipCheck.shouldSkip
    THEN Iteration("skipped", dir,
                   Outcome(skillName, TRUE, TRUE, skipCheck.reason, None),
                   skipCheck, FALSE, NoFetch)
  ELSE IF dryRun
    THEN Iteration("dryRun", dir, Outcome(skillName, TRUE, FALSE, None, None),
                   NoDecision, FALSE, NoFetch)
  ELSE Fetched(skillName, shouldForce, skipCheck, r)

\* The try block of the loop body, given what shouldSkipSync answers (skipCheck)
\* and what the fetcher does (r) if they are called.
TryBlock(skillName, skillConfig, dir, dryRun, shouldForce, skipCheck, r, inp) ==
  IF ~ValidateSkillConfig(skillConfig)
    THEN Iteration("invalidConfig", dir,
                   Outcome(skillName, FALSE, FALSE, None, "INVALID_CONFIG"),
                   NoDecision, FALSE, NoFetch)
  ELSE IF dryRun
    THEN Iteration("dryRun", dir, Outcome(skillName, TRUE, FALSE, None, None),
                   NoDecision, FALSE, NoFetch)
  ELSE IF shouldForce THEN Fetched(skillName, shouldForce, skipCheck, r)
  ELSE IF skipCheck.shouldSkip
    THEN Iteration("skipped", dir,
                   Outcome(skillName, TRUE, TRUE, skipCheck.reason, None),
                   skipCheck, FALSE, NoFetch)
  ELSE IF skipCheck.needsInteraction /\ ~PromptForOverwrite(inp.tty, inp.answer)
    THEN Iteration("denied", dir,
                   Outcome(skillName, TRUE, TRUE, skipCheck.reason, None),
                   skipCheck, TRUE, NoFetch)
  ELSE Fetched(skillName, shouldForce, skipCheck, r)

\* The loop body of syncSkills after the name has been sanitised.
\* inp: io (the file system during shouldSkipSync), tty and answer (the prompt),
\* failAt, heads and gist (the environment of the fetch).
LoopBody(skillName, skillConfig, dir, dryRun, forceSkills, inp) ==
  TryBlock(skillName, skillConfig, dir, dryRun, ShouldForce(forceSkills, skillName),
           ShouldSkipSync(skillConfig, dir, inp.io),
           Fetch(skillName, skillConfig, dir, inp), inp)

\* ------------------------------------------------------------------ the state
VARIABLES
  config,    \* config.skills: the sequence of entries [name, cfg]
  dirs,      \* the skill directory of each valid skill name under skillsPath
  heads,     \* the version each remote branch points to
  pc,        \* "idle", or "syncing" while syncSkills runs
  idx,       \* the index of the entry the loop of syncSkills is at
  run,       \* the arguments of the running syncSkills: dryRun, forceSkills
  results,   \* the results array of syncSkills
  last,      \* the last iteration of the loop: what it saw and what it did
  synced,    \* per skill: the config of its last successful fetch, while the
             \* directory has not been touched since
  nRuns,     \* how often syncSkills has been called
  nEnv,      \* how much has happened between the runs
  call       \* the call of a single function that is looked at on its own:
             \* its arguments and what it returned

vars == <<config, dirs, heads, pc, idx, run, results, last, synced, nRuns, nEnv, call>>

NoCall == [op |-> "none"]

NoCfg == [type |-> None, remote |-> NoRemote, ref |-> None, filename |-> None]
IOs == {"ok", "readdir", "readFile"}

NoLast ==
  [kind |-> "none", name |-> <<>>, cfg |-> NoCfg, pre |-> NoDir, post |-> NoDir,
   outcome |-> Outcome(<<>>, FALSE, FALSE, None, None), decision |-> NoDecision,
   asked |-> FALSE, fetch |-> NoFetch, forced |-> FALSE, dryRun |-> FALSE,
   io |-> "ok", tty |-> FALSE, gist |-> <<>>, wasSynced |-> NoCfg]

Init ==
  /\ config \in {<<[name |-> n, cfg |-> c]>> : n \in RawNames, c \in SkillConfigs}
  /\ dirs = [n \in SkillNames |-> NoDir]
  /\ heads = [b \in Branches |-> 1]
  /\ pc = "idle"
  /\ idx = 0
  /\ run = [dryRun |-> FALSE, forceSkills |-> {}]
  /\ results = <<>>
  /\ last = NoLast
  /\ synced = [n \in SkillNames |-> NoCfg]
  /\ nRuns = 0 /\ nEnv = 0
  /\ call = NoCall

\* The content of a gist: its latest revision, or the pinned one.
GistContent(cfg) == IF cfg.ref = None THEN ToString(heads["main"]) ELSE TagContent

GistInputs(cfg) == IF cfg.type = "GIST" THEN GistFileSets(GistContent(cfg)) ELSE {<<>>}
DefaultGist(cfg) == CHOOSE g \in GistInputs(cfg) : TRUE

\* syncSkills is called: sync [--dry-run] [--force [skills...]]
StartSync ==
  /\ pc = "idle" /\ nRuns < MaxRuns
  /\ \E dryRun \in BOOLEAN,
        forceSkills \in {{}, {config[k].name : k \in 1..Len(config)}} :
       run' = [dryRun |-> dryRun, forceSkills |-> forceSkills]
  /\ pc' = "syncing" /\ idx' = 1 /\ results' = <<>> /\ nRuns' = nRuns + 1
  /\ last' = NoLast
  /\ UNCHANGED <<call, config, dirs, heads, synced, nEnv>>

\* One iteration of the loop whose skill name sanitizeSkillName rejects.
SyncInvalidName ==
  /\ pc = "syncing" /\ idx <= Len(config)
  /\ ~SanitizeSkillName(config[idx].name).ok
  /\ results' = Append(results, Outcome(config[idx].name, FALSE, FALSE, None,
                                        "VALIDATION_ERROR"))
  /\ last' = [NoLast EXCEPT !.kind = "invalidName", !.name = config[idx].name,
                            !.cfg = config[idx].cfg, !.outcome = results'[Len(results')],
                            !.dryRun = run.dryRun]
  /\ idx' = idx + 1
  /\ UNCHANGED <<call, config, dirs, heads, pc, run, synced, nRuns, nEnv>>

\* The inputs that an iteration does not read are fixed to one value.
Relevant(cfg, dir, inp, it) ==
  /\ IF inp.io = "ok" THEN TRUE
     ELSE it.decision # NoDecision
          /\ ShouldSkipSync(cfg, dir, inp.io) # ShouldSkipSync(cfg, dir, "ok")
  /\ IF it.asked THEN TRUE ELSE ~inp.tty
  /\ IF it.asked /\ inp.tty THEN TRUE ELSE ~inp.answer
  /\ IF it.kind = "fetched" THEN TRUE
     ELSE inp.failAt = "none" /\ inp.gist = DefaultGist(cfg)

\* What an iteration leaves behind: the directory, the result pushed, and the
\* record of the iteration.
Iterate(skillName, cfg, dir, inp, it) ==
  /\ Relevant(cfg, dir, inp, it)
  /\ dirs' = [dirs EXCEPT ![skillName] = it.dir]
  /\ results' = Append(results, it.outcome)
  /\ synced' = [synced EXCEPT ![skillName] =
                  IF it.kind = "fetched" /\ it.fetch.err = "" THEN cfg
                  ELSE IF it.dir = dir THEN @ ELSE NoCfg]
  /\ last' = [kind |-> it.kind, name |-> skillName, cfg |-> cfg, pre |-> dir,
              post |-> it.dir, outcome |-> it.outcome, decision |-> it.decision,
              asked |-> it.asked, fetch |-> it.fetch,
              forced |-> ShouldForce(run.forceSkills, skillName),
              dryRun |-> run.dryRun, io |-> inp.io, tty |-> inp.tty, gist |-> inp.gist,
              wasSynced |-> synced[skillName]]

\* The inputs of an iteration: what the file system, the terminal, the network
\* and git do during it.
Inputs(cfg) ==
  [io : IOs, tty : BOOLEAN, answer : BOOLEAN,
   failAt : FailPoints(cfg.type) \cup {"none"}, heads : {heads}, gist : GistInputs(cfg)]

\* One iteration of the loop for a skill whose name is valid. An input that the
\* iteration does not read is fixed to one value.
SyncSkill ==
  /\ pc = "syncing" /\ idx <= Len(config)
  /\ SanitizeSkillName(config[idx].name).ok
  /\ \E inp \in Inputs(config[idx].cfg) :
       Iterate(SanitizeSkillName(config[idx].name).name, config[idx].cfg,
               dirs[SanitizeSkillName(config[idx].name).name], inp,
               LoopBody(SanitizeSkillName(config[idx].name).name, config[idx].cfg,
                        dirs[SanitizeSkillName(config[idx].name).name],
                        run.dryRun, run.forceSkills, inp))
  /\ idx' = idx + 1
  /\ UNCHANGED <<call, config, heads, pc, run, nRuns, nEnv>>

\* syncSkills returns results.
EndSync ==
  /\ pc = "syncing" /\ idx > Len(config)
  /\ pc' = "idle" /\ idx' = 0
  /\ run' = [dryRun |-> FALSE, forceSkills |-> {}]
  /\ results' = <<>>
  /\ last' = NoLast
  /\ UNCHANGED <<call, config, dirs, heads, synced, nRuns, nEnv>>

\* ------------------------------------------------------------ the environment
\* Somebody pushes to a branch of the remote.
RemotePush ==
  /\ pc = "idle" /\ nEnv < MaxEnv
  /\ \E b \in Branches :
       /\ heads[b] < MaxVersion
       /\ heads' = [heads EXCEPT ![b] = @ + 1]
  /\ nEnv' = nEnv + 1
  /\ UNCHANGED <<call, config, dirs, pc, idx, run, results, last, synced, nRuns>>

Touch(n, dir) ==
  /\ pc = "idle" /\ nEnv < MaxEnv
  /\ dirs[n].exists /\ dir # dirs[n]
  /\ dirs' = [dirs EXCEPT ![n] = dir]
  /\ synced' = [synced EXCEPT ![n] = NoCfg]
  /\ nEnv' = nEnv + 1
  /\ UNCHANGED <<call, config, heads, pc, idx, run, results, last, nRuns>>

\* The user edits or creates a file of a skill directory.
LocalWrite == \E n \in SkillNames, p \in Paths :
  Touch(n, [dirs[n] EXCEPT !.files[p] = LocalContent])

\* The user deletes a file of a skill directory.
LocalDelete == \E n \in SkillNames, p \in Paths :
  Touch(n, [dirs[n] EXCEPT !.files[p] = Absent])

\* The user deletes the sidecar, or leaves it unparsable.
LocalSidecar == \E n \in SkillNames, m \in {NoMeta, CorruptMeta} :
  Touch(n, [dirs[n] EXCEPT !.meta = m])

\* The user removes a skill directory.
LocalRemove == \E n \in SkillNames : Touch(n, NoDir)

\* The user edits the configuration of a skill.
EditConfig ==
  /\ pc = "idle" /\ nEnv < MaxEnv
  /\ \E k \in 1..Len(config), c \in SkillConfigs :
       /\ c # config[k].cfg
       /\ config' = [config EXCEPT ![k].cfg = c]
  /\ nEnv' = nEnv + 1
  /\ UNCHANGED <<call, dirs, heads, pc, idx, run, results, last, synced, nRuns>>

Next ==
  \/ StartSync \/ SyncInvalidName \/ SyncSkill \/ EndSync
  \/ RemotePush \/ LocalWrite \/ LocalDelete \/ LocalSidecar \/ LocalRemove
  \/ EditConfig

Spec == Init /\ [][Next]_vars

\* ------------------------------------------------- a configuration of several skills
\* The loop of syncSkills over a configuration that declares several skills,
\* some with a name that sanitizeSkillName rejects or a config that
\* validateSkillConfig rejects.
MaxSkills == 2
LoopNames == {<<"a">>, <<"b">>}
\* The raw names: the keys of the entries, one of them with a trailing blank
\* (which sanitizeSkillName trims) and one that it rejects.
LoopRawNames == LoopNames \cup {<<"b", " ">>, <<".", ".">>}
InvalidCfg == [type |-> "GIT_FILE", remote |-> NoRemote, ref |-> None, filename |-> None]
LoopConfigs ==
  {[type |-> "GIT_FILE", remote |-> BlobTagUrl, ref |-> None, filename |-> None],
   [type |-> "GIT_REPO", remote |-> RepoUrl, ref |-> None, filename |-> None],
   InvalidCfg}
LoopEntries == [name : LoopRawNames, cfg : LoopConfigs]

InitLoop ==
  /\ config \in UNION {[1..n -> LoopEntries] : n \in 1..MaxSkills}
  /\ dirs = [n \in LoopNames |-> NoDir]
  /\ heads = [b \in Branches |-> 1]
  /\ pc = "idle"
  /\ idx = 0
  /\ run = [dryRun |-> FALSE, forceSkills |-> {}]
  /\ results = <<>>
  /\ last = NoLast
  /\ synced = [n \in LoopNames |-> NoCfg]
  /\ nRuns = 0 /\ nEnv = 0
  /\ call = NoCall

NextLoop == StartSync \/ SyncInvalidName \/ SyncSkill \/ EndSync

SpecLoop == InitLoop /\ [][NextLoop]_vars

\* ------------------------------------------------- calculateContentHash on its own
\* The state of the program while a single function is looked at: nothing is
\* configured and no sync runs.
Idle ==
  /\ config = <<>>
  /\ dirs = [n \in SkillNames |-> NoDir]
  /\ heads = [b \in Branches |-> 1]
  /\ pc = "idle"
  /\ idx = 0
  /\ run = [dryRun |-> FALSE, forceSkills |-> {}]
  /\ results = <<>>
  /\ last = NoLast
  /\ synced = [n \in SkillNames |-> NoCfg]
  /\ nRuns = 0 /\ nEnv = 0

Frozen ==
  UNCHANGED <<config, dirs, heads, pc, idx, run, results, last, synced, nRuns, nEnv>>

\* The directories calculateContentHash is applied to: a file below the hidden
\* directory .git, the sidecar, and two files whose names and contents can be
\* cut in more than one way ("a" with "b", "ab" with "").
\* HashNames lists the relative paths in the order of Array.prototype.sort.
HashNames == <<".git/HEAD", ".skill-manager.json", "a", "ab">>
HashFiles == {"a", "ab", ".git/HEAD"}
HashContents == {"", "b"}
Sidecars == {NoMeta, CorruptMeta, [NoMeta EXCEPT !.state = "json"]}
HashDirs ==
  [exists : {TRUE}, files : [HashFiles -> HashContents \cup {Absent}], meta : Sidecars]

\* The orders in which readdir may return the entries.
Orders ==
  {o \in [1..Len(HashNames) -> {HashNames[k] : k \in 1..Len(HashNames)}] :
     \A i, j \in 1..Len(HashNames) : i # j => o[i] # o[j]}

\* getAllFiles, with the entries coming in the order readdir returns them.
Enumerate(dir, order) == SelectSeq(order, LAMBDA p : Listed(dir, p))

Rank(p) == CHOOSE k \in 1..Len(HashNames) : HashNames[k] = p

RECURSIVE Insert(_, _)
Insert(p, sorted) ==
  IF sorted = <<>> THEN <<p>>
  ELSE IF Rank(p) <= Rank(Head(sorted)) THEN <<p>> \o sorted
  ELSE <<Head(sorted)>> \o Insert(p, Tail(sorted))

\* files.sort()
RECURSIVE SortFiles(_)
SortFiles(files) ==
  IF files = <<>> THEN <<>> ELSE Insert(Head(files), SortFiles(Tail(files)))

DigestInputUnsorted(dir, order) == HashStream(dir, Enumerate(dir, order))

\* The bytes calculateContentHash feeds to the digest, and the digest.
DigestInput(dir, order) == HashStream(dir, SortFiles(Enumerate(dir, order)))
ContentHashOf(dir, order) == Sha256Hex(DigestInput(dir, order))

\* The tracked files of a directory: the (relative path, bytes) pairs of the
\* files that are not the sidecar and not below a hidden directory.
TrackedPairs(dir) ==
  {<<p, dir.files[p]>> : p \in {q \in DOMAIN dir.files : Listed(dir, q)}}

InitHash == Idle /\ call = NoCall

\* calculateContentHash(skillDir) is called.
CallCalculateContentHash ==
  /\ call.op = "none"
  /\ \E dir \in HashDirs, order \in Orders :
       call' = [op |-> "calculateContentHash", dir |-> dir, order |-> order,
                input |-> DigestInput(dir, order), hash |-> ContentHashOf(dir, order)]
  /\ Frozen

\* The sidecar of the directory is created, rewritten or deleted, and the hash
\* is taken again.
RewriteSidecar ==
  /\ call.op = "calculateContentHash"
  /\ \E m \in Sidecars, order \in Orders :
       /\ m # call.dir.meta
       /\ call' = [op |-> "calculateContentHash", dir |-> [call.dir EXCEPT !.meta = m],
                   order |-> order,
                   input |-> DigestInput([call.dir EXCEPT !.meta = m], order),
                   hash |-> ContentHashOf([call.dir EXCEPT !.meta = m], order)]
  /\ Frozen

NextHash == CallCalculateContentHash \/ RewriteSidecar

SpecHash == InitHash /\ [][NextHash]_vars

\* ---------------------------------------------------------- loadMetadata on its own
\* The sidecars loadMetadata is applied to: no file, a file that cannot be read
\* or parsed, and a JSON object in which each field is there or not. The fields
\* that are there hold what a sync of the config would have stored.
\* A remote that parseGitUrl rejects: it names no repository.
UnparsableUrl == [host |-> GitHubHost, segs |-> <<"o">>]
MetaConfigs ==
  {[type |-> "GIT_FILE", remote |-> BlobTagUrl, ref |-> None, filename |-> None],
   [type |-> "GIT_REPO", remote |-> RepoUrl, ref |-> "v1", filename |-> None],
   [type |-> "GIT_REPO", remote |-> RepoUrl, ref |-> None, filename |-> None],
   [type |-> "GIT_FILE", remote |-> UnparsableUrl, ref |-> "v1", filename |-> None],
   [type |-> "GIT_FILE", remote |-> UnparsableUrl, ref |-> None, filename |-> None]}
MetaFiles == [NoFiles EXCEPT ![DEFAULT_SKILL_FILENAME] = TagContent]
SidecarsOf(cfg) ==
  {NoMeta, CorruptMeta} \cup
  [state : {"json"}, remote : {NoRemote, cfg.remote}, type : {None, cfg.type},
   ref : {None, "v1"}, lastSync : {None, "now"},
   contentHash : {None, CalculateContentHash([exists |-> TRUE, files |-> MetaFiles,
                                              meta |-> NoMeta], "ok").hash}]
LacksRequired(m) ==
  m.remote = NoRemote \/ m.type = None \/ m.lastSync = None \/ m.contentHash = None

InitMeta == Idle /\ call = NoCall

\* loadMetadata(skillDir) is called, then shouldSkipSync and the loop body of a
\* real, unforced, unattended sync for the same directory.
CallLoadMetadata ==
  /\ call.op = "none"
  /\ \E cfg \in MetaConfigs, io \in IOs :
       \E m \in SidecarsOf(cfg) :
         call' = [op |-> "loadMetadata", cfg |-> cfg, io |-> io,
                  dir |-> [exists |-> TRUE, files |-> MetaFiles, meta |-> m],
                  loaded |-> LoadMetadata([exists |-> TRUE, files |-> MetaFiles,
                                           meta |-> m]),
                  decision |-> ShouldSkipSync(cfg, [exists |-> TRUE, files |-> MetaFiles,
                                                    meta |-> m], io),
                  kind |-> LoopBody(<<"a">>, cfg,
                                    [exists |-> TRUE, files |-> MetaFiles, meta |-> m],
                                    FALSE, {},
                                    [io |-> io, tty |-> FALSE, answer |-> FALSE,
                                     failAt |-> "none", heads |-> heads,
                                     gist |-> <<>>]).kind]
  /\ Frozen

\* The result has been used.
ReturnLoadMetadata ==
  /\ call.op = "loadMetadata"
  /\ call' = NoCall
  /\ Frozen

NextMeta == CallLoadMetadata \/ ReturnLoadMetadata

SpecMeta == InitMeta /\ [][NextMeta]_vars

\* ------------------------------------------------------------ the retry executor
\* withRetry and withRetryAndTimeout (retry.ts), as the fetchers call them:
\* an operation, a label and options. Each attempt invokes the operation once;
\* a failed or timed-out attempt is followed by a backoff delay and the next
\* attempt, until maxRetries attempts have been made.
MaxRetryOption == 3
HTTP_MAX_RETRIES == 3
HTTP_INITIAL_BACKOFF == 1000
HTTP_MAX_BACKOFF == 10000

RetryLabels == {"Cloning", "Fetching"}
AttemptOutcomes(timed) == IF timed THEN {"ok", "fail", "timeout"} ELSE {"ok", "fail"}

\* What the operation does at each invocation.
Plans(timed) == [1..(MaxRetryOption + 1) -> AttemptOutcomes(timed)]

\* The first attempt at which the operation succeeds; 0 if there is none.
FirstSuccess(plan) ==
  IF \E k \in DOMAIN plan : plan[k] = "ok"
    THEN CHOOSE k \in DOMAIN plan : plan[k] = "ok" /\ \A j \in 1..(k - 1) : plan[j] # "ok"
    ELSE 0

\* The options of a call: maxRetries as given, or the default (option 0 stands
\* for options without maxRetries).
EffectiveMaxRetries(option) == IF option = 0 THEN HTTP_MAX_RETRIES ELSE option

\* The delay after the n-th failed attempt.
BackoffDelay(n) ==
  IF HTTP_INITIAL_BACKOFF * (2 ^ (n - 1)) > HTTP_MAX_BACKOFF THEN HTTP_MAX_BACKOFF
  ELSE HTTP_INITIAL_BACKOFF * (2 ^ (n - 1))

\* The value the operation returns at its n-th invocation.
ValueOf(n) == [attempt |-> n]
NoValue == ValueOf(0)

\* The last failure, wrapped with the label.
Wrapped(label, cause, n) == [label |-> label, cause |-> cause, attempt |-> n]
NoFailure == Wrapped("", "", 0)

AfterAttemptGivingUpEarly(c, outcome) ==
  IF outcome = "ok"
    THEN [c EXCEPT !.attempts = @ + 1, !.status = "returned",
                   !.result = ValueOf(c.attempts + 1)]
  ELSE IF c.attempts + 1 >= c.maxRetries - 1
    THEN [c EXCEPT !.attempts = @ + 1, !.status = "raised",
                   !.error = Wrapped(c.label, outcome, c.attempts + 1)]
  ELSE [c EXCEPT !.attempts = @ + 1, !.status = "backoff"]

AfterAttemptOneMore(c, outcome) ==
  IF outcome = "ok"
    THEN [c EXCEPT !.attempts = @ + 1, !.status = "returned",
                   !.result = ValueOf(c.attempts + 1)]
  ELSE IF c.attempts + 1 > c.maxRetries
    THEN [c EXCEPT !.attempts = @ + 1, !.status = "raised",
                   !.error = Wrapped(c.label, outcome, c.attempts + 1)]
  ELSE [c EXCEPT !.attempts = @ + 1, !.status = "backoff"]

\* The executor after an attempt with the given outcome: it returns the result,
\* or raises when this was the last attempt, or backs off.
AfterAttempt(c, outcome) ==
  IF outcome = "ok"
    THEN [c EXCEPT !.attempts = @ + 1, !.status = "returned",
                   !.result = ValueOf(c.attempts + 1)]
  ELSE IF c.attempts + 1 >= c.maxRetries
    THEN [c EXCEPT !.attempts = @ + 1, !.status = "raised",
                   !.error = Wrapped(c.label, outcome, c.attempts + 1)]
  ELSE [c EXCEPT !.attempts = @ + 1, !.status = "backoff"]

InitRetry == Idle /\ call = NoCall

\* withRetry(operation, label, options) or withRetryAndTimeout(...) is called.
CallWithRetry ==
  /\ call.op = "none"
  /\ \E timed \in BOOLEAN, label \in RetryLabels,
        option \in 0..MaxRetryOption :
       \E plan \in Plans(timed) :
         call' = [op |-> "withRetry", timed |-> timed, label |-> label,
                  maxRetries |-> EffectiveMaxRetries(option), plan |-> plan,
                  attempts |-> 0, slept |-> <<>>, status |-> "attempting",
                  result |-> NoValue, error |-> NoFailure]
  /\ Frozen

\* One attempt: the operation is invoked and succeeds, fails or times out.
Attempt ==
  /\ call.op = "withRetry" /\ call.status = "attempting"
  /\ call.attempts < MaxRetryOption + 1
  /\ call' = AfterAttempt(call, call.plan[call.attempts + 1])
  /\ Frozen

\* The delay between two attempts.
Backoff ==
  /\ call.op = "withRetry" /\ call.status = "backoff"
  /\ call' = [call EXCEPT !.slept = Append(@, BackoffDelay(call.attempts)),
                          !.status = "attempting"]
  /\ Frozen

NextRetry == CallWithRetry \/ Attempt \/ Backoff

\* A call that has been made goes on: an attempt ends (by its result, its failure
\* or its time bound) and a delay ends.
SpecRetry == InitRetry /\ [][NextRetry]_vars /\ WF_vars(Attempt) /\ WF_vars(Backoff)

\* ------------------------------------------------------------- fetchGist on its own
\* The gists fetchGist is applied to: up to MaxGistFiles files, in the order
\* the API returns them, with names that are or are not markdown names, one of
\* them with an upper-case extension.
MaxGistFiles == 3
GistNames == {"notes.txt", "SKILL.md", "a.md", "B.MD", "c.markdown"}
GistFilenames == {None, "a.md", "notes.txt", "missing.md"}
ContentOf(n) == "content of " \o n
Gists ==
  UNION {{[k \in 1..n |-> [filename |-> names[k], content |-> ContentOf(names[k])]] :
            names \in {f \in [1..n -> GistNames] :
                         \A i, j \in 1..n : i # j => f[i] # f[j]}} :
         n \in 0..MaxGistFiles}
GistConfig(filename) ==
  [type |-> "GIST", remote |-> GistUrl, ref |-> None, filename |-> filename]
\* The skill directory before the fetch: not there, or there with a skill file.
GistDirsBefore ==
  {NoDir, [exists |-> TRUE,
           files |-> [NoFiles EXCEPT ![DEFAULT_SKILL_FILENAME] = LocalContent],
           meta |-> NoMeta]}

InitGist == Idle /\ call = NoCall

\* GistFetcher.fetch(skillName, config, skillsPath) is called, the API answers
\* with the gist, and nothing else fails.
CallFetchGist ==
  /\ call.op = "none"
  /\ \E filename \in GistFilenames, gist \in Gists, dir \in GistDirsBefore :
       call' = [op |-> "fetchGist", filename |-> filename, gist |-> gist, before |-> dir,
                fetch |-> FetchOf(FetchGist(<<"a">>, GistConfig(filename), dir,
                                            [failAt |-> "none", heads |-> heads,
                                             gist |-> gist])),
                after |-> FetchGist(<<"a">>, GistConfig(filename), dir,
                                    [failAt |-> "none", heads |-> heads,
                                     gist |-> gist]).dir]
  /\ Frozen

\* The fetch has returned or thrown.
ReturnFetchGist ==
  /\ call.op = "fetchGist"
  /\ call' = NoCall
  /\ Frozen

NextGist == CallFetchGist \/ ReturnFetchGist

SpecGist == InitGist /\ [][NextGist]_vars

\* ------------------------------------------------------- the fetchers on their own
\* fetchGitFolder and fetchGitRepo applied to a skill name, a remote and a skill
\* directory, with one step of the fetch failing or none. The folder paths
\* embedded in the URL stay below the clone or climb out of it.
FolderPaths ==
  {<<"skills">>, <<".", "skills">>, <<"skills", "..", "docs">>,
   <<"..">>, <<"..", "x">>, <<"skills", "..", "..", "x">>}
FolderUrl(path) == [host |-> GitHubHost, segs |-> <<"o", "r", "tree", "main">> \o path]
FetchNames == {<<"a">>, <<".", ".">>}
DirsBefore ==
  {NoDir, [exists |-> TRUE,
           files |-> [NoFiles EXCEPT ![DEFAULT_SKILL_FILENAME] = LocalContent],
           meta |-> [NoMeta EXCEPT !.state = "json"]]}
FetchConfig(type, remote) == [type |-> type, remote |-> remote, ref |-> None, filename |-> None]

\* What a call of a fetcher saw and did.
FetchCall(op, name, cfg, dir, failAt, r) ==
  [op |-> op, name |-> name, config |-> cfg, before |-> dir, failAt |-> failAt,
   fetch |-> FetchOf(r), after |-> r.dir]

InitFetch == Idle /\ call = NoCall

\* GitFolderFetcher.fetch(skillName, config, skillsPath)
CallFetchGitFolder ==
  /\ call.op = "none"
  /\ \E name \in FetchNames, path \in FolderPaths, dir \in DirsBefore,
        failAt \in FailPoints("GIT_FOLDER") \cup {"none"} :
       call' = FetchCall("fetchGitFolder", name, FetchConfig("GIT_FOLDER", FolderUrl(path)),
                         dir, failAt,
                         FetchGitFolder(name, FetchConfig("GIT_FOLDER", FolderUrl(path)), dir,
                                        [failAt |-> failAt, heads |-> heads, gist |-> <<>>]))
  /\ Frozen

\* GitRepoFetcher.fetch(skillName, config, skillsPath)
CallFetchGitRepo ==
  /\ call.op = "none"
  /\ \E name \in FetchNames, remote \in {RepoUrl, LabRepoUrl}, dir \in DirsBefore,
        failAt \in FailPoints("GIT_REPO") \cup {"none"} :
       call' = FetchCall("fetchGitRepo", name, FetchConfig("GIT_REPO", remote), dir, failAt,
                         FetchGitRepo(name, FetchConfig("GIT_REPO", remote), dir,
                                      [failAt |-> failAt, heads |-> heads, gist |-> <<>>]))
  /\ Frozen

\* The sizes a response declares or has, around the limit; NoContentLength
\* stands for a response without a content-length header.
NoContentLength == 0 - 1
BodySizes == {0, MAX_FILE_SIZE - 1, MAX_FILE_SIZE, MAX_FILE_SIZE + 1, 2 * MAX_FILE_SIZE}
DeclaredSizes == {NoContentLength, MAX_FILE_SIZE, MAX_FILE_SIZE + 1, 2 * MAX_FILE_SIZE}

\* The size checks of fetchGitFile: the declared content-length when the
\* response has one, then the byte length of the body.
GitFileSizeChecks(declared, body) ==
  IF declared # NoContentLength /\ ValidateFileSize(declared, MAX_FILE_SIZE) # ""
    THEN ValidateFileSize(declared, MAX_FILE_SIZE)
  ELSE ValidateFileSize(body, MAX_FILE_SIZE)

\* The step that fails in a fetch of a file: the size check when a size is over
\* the limit and the response came, else the step the environment fails.
FailingStep(sizeCheck, failAt) ==
  IF sizeCheck # "" /\ failAt \notin {"fetch", "responseOk"} THEN "validateFileSize"
  ELSE failAt
OtherFailPoints(type) == (FailPoints(type) \ {"validateFileSize"}) \cup {"none"}

SizedCall(c, declared, body) ==
  [op |-> c.op, name |-> c.name, config |-> c.config, before |-> c.before,
   failAt |-> c.failAt, fetch |-> c.fetch, after |-> c.after,
   declared |-> declared, body |-> body]

\* GitFileFetcher.fetch(skillName, config, skillsPath)
CallFetchGitFile ==
  /\ call.op = "none"
  /\ \E declared \in DeclaredSizes, body \in BodySizes, dir \in DirsBefore,
        failAt \in OtherFailPoints("GIT_FILE") :
       call' = SizedCall(
                 FetchCall("fetchGitFile", <<"a">>, FetchConfig("GIT_FILE", BlobTagUrl), dir,
                           FailingStep(GitFileSizeChecks(declared, body), failAt),
                           FetchGitFile(<<"a">>, FetchConfig("GIT_FILE", BlobTagUrl), dir,
                                        [failAt |-> FailingStep(GitFileSizeChecks(declared, body),
                                                                failAt),
                                         heads |-> heads, gist |-> <<>>])),
                 declared, body)
  /\ Frozen

\* GistFetcher.fetch(skillName, config, skillsPath), the gist holding SKILL.md
CallFetchGistSized ==
  /\ call.op = "none"
  /\ \E body \in BodySizes, dir \in DirsBefore, failAt \in OtherFailPoints("GIST") :
       call' = SizedCall(
                 FetchCall("fetchGist", <<"a">>, GistConfig(None), dir,
                           FailingStep(ValidateFileSize(body, MAX_FILE_SIZE), failAt),
                           FetchGist(<<"a">>, GistConfig(None), dir,
                                     [failAt |-> FailingStep(ValidateFileSize(body, MAX_FILE_SIZE),
                                                             failAt),
                                      heads |-> heads,
                                      gist |-> <<[filename |-> DEFAULT_SKILL_FILENAME,
                                                  content |-> ContentOf(DEFAULT_SKILL_FILENAME)]>>])),
                 NoContentLength, body)
  /\ Frozen

\* The fetcher has returned or thrown.
ReturnFetch ==
  /\ call.op \in {"fetchGitFolder", "fetchGitRepo", "fetchGitFile", "fetchGist"}
  /\ call' = NoCall
  /\ Frozen

NextFetch ==
  \/ CallFetchGitFolder
  \/ CallFetchGitRepo
  \/ CallFetchGitFile
  \/ CallFetchGistSized
  \/ ReturnFetch

SpecFetch == InitFetch /\ [][NextFetch]_vars

\* ------------------------------------------------------------ the set command
\* addCommand applied to a name, a skill configuration and a list of agents,
\* with the config file and the skill directory there or not, and one step
\* failing or none.
\* resolveHomePath('~/.agents/skills'): where addCommand downloads to
AgentsSkillsPath == <<"~", ".agents", "skills">>
DEFAULT_SKILLS_PATH == <<"~", ".claude", "skills">>
AgentTypes == {"cursor", "claude-code"}
\* The directory in which an agent looks for skills.
AgentSkillsPath(agent) ==
  IF agent = "claude-code" THEN <<"~", ".claude", "skills">> ELSE <<"~", ".cursor", "skills">>
\* No --agent option means all agents.
TargetAgents(agents) == IF agents = {} THEN AgentTypes ELSE agents

NoConfigFile == [exists |-> FALSE, skillsPath |-> <<>>, skills |-> <<>>]
ExistingConfigFile == [exists |-> TRUE, skillsPath |-> AgentsSkillsPath, skills |-> <<>>]
AddConfigs ==
  {FetchConfig("GIT_FILE", BlobTagUrl),
   [type |-> "GIT_REPO", remote |-> RepoUrl, ref |-> "v1", filename |-> None]}
\* The steps of addCommand outside the fetch that can fail.
AddFailPoints == {"writeJson", "ensureDir", "createSymlinksForSkill", "addSkillToConfig"}

\* rollbackState, the files, and the error thrown (if any)
AddStart(file, dir) ==
  [err |-> "", configCreated |-> FALSE, skillDirCreated |-> FALSE,
   file |-> file, dir |-> dir, links |-> {}]

\* 1. sanitizeSkillName(options.name)
AddValidate(s, name) ==
  IF SanitizeSkillName(name).ok THEN s ELSE [s EXCEPT !.err = "VALIDATION_ERROR"]

\* 3. create the config file, with the skill in it, when there is none
AddCreateConfig(s, name, cfg, failAt) ==
  IF s.err # "" \/ s.file.exists THEN s
  ELSE IF failAt = "writeJson" THEN [s EXCEPT !.err = "FILE_SYSTEM_ERROR"]
  ELSE [s EXCEPT !.file = [exists |-> TRUE, skillsPath |-> DEFAULT_SKILLS_PATH,
                           skills |-> <<[name |-> name, cfg |-> cfg]>>],
                 !.configCreated = TRUE]

\* 4. ensureSkillDirectory(skillsPath, skillName); skillDirCreated = true
AddEnsureDir(s, failAt) ==
  IF s.err # "" THEN s
  ELSE IF failAt = "ensureDir" THEN [s EXCEPT !.err = "FILE_SYSTEM_ERROR"]
  ELSE [s EXCEPT !.dir = EnsureSkillDirectory(@), !.skillDirCreated = TRUE]

\* fetcher.fetch(skillName, skillConfig, skillsPath)
AddFetch(s, name, cfg, env) ==
  IF s.err # "" THEN s
  ELSE [s EXCEPT !.dir = Fetch(name, cfg, s.dir, env).dir,
                 !.err = Fetch(name, cfg, s.dir, env).err]

\* 5. createSymlinksForSkill(skillName, skillDir, agents)
AddSymlinks(s, agents, failAt) ==
  IF s.err # "" THEN s
  ELSE IF failAt = "createSymlinksForSkill" THEN [s EXCEPT !.err = "FILE_SYSTEM_ERROR"]
  ELSE [s EXCEPT !.links = TargetAgents(agents)]

\* 6. addSkillToConfig, unless the config was just created with the skill
AddToConfig(s, name, cfg, failAt) ==
  IF s.err # "" \/ s.configCreated THEN s
  ELSE IF failAt = "addSkillToConfig" THEN [s EXCEPT !.err = "CONFIG_ERROR"]
  ELSE [s EXCEPT !.file.skills = Append(@, [name |-> name, cfg |-> cfg])]

\* rollback(state)
Rollback(s) ==
  [s EXCEPT !.dir = IF s.skillDirCreated /\ @.exists THEN NoDir ELSE @,
            !.file = IF s.configCreated /\ @.exists THEN NoConfigFile ELSE @]

\* The try block of addCommand.
AddTry(name, cfg, agents, file, dir, env) ==
  AddToConfig(
    AddSymlinks(
      AddFetch(
        AddEnsureDir(
          AddCreateConfig(AddValidate(AddStart(file, dir), name), name, cfg, env.failAt),
          env.failAt),
        name, cfg, env),
      agents, env.failAt),
    name, cfg, env.failAt)

\* addCommand: the try block, and rollback in the catch block
AddCommand(name, cfg, agents, file, dir, env) ==
  IF AddTry(name, cfg, agents, file, dir, env).err # ""
    THEN Rollback(AddTry(name, cfg, agents, file, dir, env))
  ELSE AddTry(name, cfg, agents, file, dir, env)

\* The directory path.join(config.skillsPath, skillName) that a sync with the
\* config file left by the command works on: the directory of the download, the
\* link to it in an agent's directory, or nothing.
SyncDir(s) ==
  IF s.file.skillsPath = AgentsSkillsPath THEN s.dir
  ELSE IF \E agent \in s.links : AgentSkillsPath(agent) = s.file.skillsPath THEN s.dir
  ELSE NoDir

InitAdd == Idle /\ call = NoCall

\* set --name <name> --remote <remote> [--ref <ref>] [--agent <agents...>]
CallAddCommand ==
  /\ call.op = "none"
  /\ \E name \in FetchNames, cfg \in AddConfigs, agents \in {{}, {"cursor"}, {"claude-code"}},
        file \in {NoConfigFile, ExistingConfigFile}, dir \in DirsBefore :
       \E failAt \in AddFailPoints \cup FailPoints(cfg.type) \cup {"none"} :
       call' = [op |-> "addCommand", name |-> name, cfg |-> cfg, agents |-> agents,
                fileBefore |-> file, before |-> dir, failAt |-> failAt,
                result |-> AddCommand(name, cfg, agents, file, dir,
                                      [failAt |-> failAt, heads |-> heads, gist |-> <<>>])]
  /\ Frozen

\* The command has ended (process exit or return).
ReturnAddCommand ==
  /\ call.op = "addCommand"
  /\ call' = NoCall
  /\ Frozen

NextAdd == CallAddCommand \/ ReturnAddCommand

SpecAdd == InitAdd /\ [][NextAdd]_vars

\* ------------------------------------------------ edits after a pinned sync
\* A skill directory as a pinned sync left it (the sidecar holds the hash of its
\* content), then one file of it written, created or deleted, and the skip
\* check of the next sync. The files: a dot-file at the top, one below the
\* hidden directory .git, the skill file, and below the directory docs a
\* dot-file and a file in the hidden directory .cache.
HiddenPaths == {".env", ".git/HEAD", "SKILL.md", "docs/.cache/x", "docs/.env"}
PinnedConfig == [type |-> "GIT_REPO", remote |-> RepoUrl, ref |-> "v1", filename |-> None]
\* The directory after saveMetadata of a fetch of PinnedConfig.
AsSynced(files) ==
  SaveMetadata([exists |-> TRUE, files |-> files, meta |-> NoMeta],
               PinnedConfig.remote, ResolveRef(PinnedConfig.ref, None), PinnedConfig.type,
               CalculateContentHash([exists |-> TRUE, files |-> files, meta |-> NoMeta],
                                    "ok").hash)

InitHidden == Idle /\ call = NoCall

\* The user changes one file; then shouldSkipSync is called.
CallSkipCheckAfterEdit ==
  /\ call.op = "none"
  /\ \E files \in [HiddenPaths -> {Absent, TagContent, LocalContent}], path \in HiddenPaths :
       \E content \in {Absent, TagContent, LocalContent} \ {files[path]} :
         call' = [op |-> "skipCheckAfterEdit", path |-> path,
                  synced |-> AsSynced(files),
                  edited |-> [AsSynced(files) EXCEPT !.files[path] = content],
                  hashBefore |-> CalculateContentHash(AsSynced(files), "ok").hash,
                  hashAfter |-> CalculateContentHash(
                                  [AsSynced(files) EXCEPT !.files[path] = content], "ok").hash,
                  decision |-> ShouldSkipSync(
                                 PinnedConfig,
                                 [AsSynced(files) EXCEPT !.files[path] = content], "ok")]
  /\ Frozen

\* shouldSkipSync has returned.
ReturnSkipCheckAfterEdit ==
  /\ call.op = "skipCheckAfterEdit"
  /\ call' = NoCall
  /\ Frozen

NextHidden == CallSkipCheckAfterEdit \/ ReturnSkipCheckAfterEdit

SpecHidden == InitHidden /\ [][NextHidden]_vars

\* ------------------------------------------------------------------ the claims
\* C1: shouldSkipSync returns shouldSkip = true exactly when the skill directory
\* exists, the sidecar exists and loads as valid, the config yields an explicit
\* ref (config.ref, or a URL-embedded ref for GIT_FILE and GIT_FOLDER), the
\* stored remote, type and ref equal the configured remote, the configured type
\* and the currently resolved ref, and the recomputed content hash equals the
\* stored one; in every other case it returns shouldSkip = false.
C1_SkipOnlyIfAllHold ==
  (last.kind \in {"skipped", "denied", "fetched"} /\ ~last.forced) =>
    LET dir == last.pre
        m == dir.meta
        cfg == last.cfg
    IN last.decision.shouldSkip <=>
         /\ dir.exists
         /\ m.state = "json" /\ m.remote # NoRemote /\ m.type # None
         /\ m.lastSync # None /\ m.contentHash # None
         /\ \/ cfg.ref # None
            \/ /\ cfg.type \in {"GIT_FILE", "GIT_FOLDER"}
               /\ ParseGitUrl(cfg.remote, cfg.type).ref # None
         /\ m.remote = cfg.remote
         /\ m.type = cfg.type
         /\ m.ref = ResolveRefForSkill(cfg)
         /\ last.io # "readFile"
         /\ m.contentHash = Sha256Hex(HashStream(dir, GetAllFiles(dir, last.io)))

\* A sync in which shouldSkipSync said skip.
C1_Witness ==
  /\ last.kind = "skipped" /\ last.decision.shouldSkip
  /\ last.pre.meta.type = last.cfg.type /\ last.pre.meta.remote = last.cfg.remote

\* C2: shouldSkipSync sets needsInteraction exactly when the directory exists,
\* the metadata is valid, an explicit ref is present, remote, type and ref all
\* match, and the recomputed content hash differs from the stored one; it is
\* not set when it skips, on any earlier mismatch, or when the hash cannot be
\* computed.
C2_InteractionExactlyOnHashMismatch ==
  (last.kind \in {"skipped", "denied", "fetched"} /\ ~last.forced) =>
    LET dir == last.pre
        m == dir.meta
        cfg == last.cfg
    IN last.decision.needsInteraction <=>
         /\ dir.exists
         /\ m.state = "json" /\ m.remote # NoRemote /\ m.type # None
         /\ m.lastSync # None /\ m.contentHash # None
         /\ \/ cfg.ref # None
            \/ /\ cfg.type \in {"GIT_FILE", "GIT_FOLDER"}
               /\ ParseGitUrl(cfg.remote, cfg.type).ref # None
         /\ m.remote = cfg.remote
         /\ m.type = cfg.type
         /\ m.ref = ResolveRefForSkill(cfg)
         /\ last.io # "readFile"
         /\ m.contentHash # Sha256Hex(HashStream(dir, GetAllFiles(dir, last.io)))

\* A sync of a locally modified skill in which the user was asked.
C2_Witness ==
  /\ last.kind \in {"denied", "fetched"} /\ last.decision.needsInteraction
  /\ last.asked /\ last.io = "ok"
  /\ last.pre.meta.contentHash # CalculateContentHash(last.pre, "ok").hash

\* C3: for every kind and every config with a pinned ref, a sync that finds no
\* sidecar fetches, and once a fetch has succeeded, a following non-forced sync
\* with the same config and an untouched directory runs no fetch, leaves the
\* directory alone and records a skipped outcome whose reason cites the
\* resolved ref. (A real run, not a dry run, and the directory can be read when
\* the hash is recomputed.)
C3_PinnedSecondSyncSkips ==
  (last.kind \in {"skipped", "denied", "fetched"} /\ HasExplicitRefInConfig(last.cfg)) =>
    /\ ~MetadataExists(last.pre) => last.kind = "fetched"
    /\ (last.wasSynced = last.cfg /\ ~last.forced /\ last.io = "ok") =>
         /\ last.kind = "skipped"
         /\ last.fetch = NoFetch
         /\ last.post = last.pre
         /\ last.outcome.success /\ last.outcome.skipped
         /\ last.outcome.reason = "already synced to " \o ResolveRefForSkill(last.cfg)
         /\ last.outcome.reason = "already synced to " \o last.pre.meta.ref

\* The second sync of a skill pinned to a tag: skipped, citing the tag.
C3_Witness ==
  /\ nRuns = 2 /\ last.kind = "skipped"
  /\ last.wasSynced = last.cfg /\ ~last.forced
  /\ last.outcome.reason = "already synced to v1"

\* C4: resolveRef returns the configuration ref when one is given, whether or
\* not the URL embeds a ref; the URL-embedded ref when only that is given; and
\* the default branch name 'main' when neither is given. This holds for all
\* pairs, and for the pair each git fetch passes to it (a whole-repository fetch
\* passes no URL ref), whose result the fetch stores.
C4_ResolveRefPrecedence ==
  /\ \A configRef \in Refs \cup {None}, urlRef \in Refs \cup {None} :
       /\ configRef # None => ResolveRef(configRef, urlRef) = configRef
       /\ (configRef = None /\ urlRef # None) => ResolveRef(configRef, urlRef) = urlRef
       /\ (configRef = None /\ urlRef = None) => ResolveRef(configRef, urlRef) = "main"
  /\ (last.kind = "fetched" /\ last.fetch.err = "" /\ last.cfg.type # "GIST") =>
       LET configRef == last.cfg.ref
           urlRef == IF last.cfg.type = "GIT_REPO" THEN None
                     ELSE ParseGitUrl(last.cfg.remote, last.cfg.type).ref
       IN last.post.meta.ref = IF configRef # None THEN configRef
                               ELSE IF urlRef # None THEN urlRef
                               ELSE "main"

\* A single-file fetch that resolved its ref from the URL, no config ref being
\* given, and stored it.
C4_Witness ==
  /\ last.kind = "fetched" /\ last.fetch.err = ""
  /\ last.cfg.type = "GIT_FILE" /\ last.cfg.ref = None
  /\ ParseGitUrl(last.cfg.remote, "GIT_FILE").ref = "v1"
  /\ last.post.meta.ref = "v1"

\* C5: for every config with which the skip check reaches the ref comparison,
\* the ref that resolveRefForSkill resolves is the ref that the fetch of that
\* config stored in the sidecar, for all four kinds; so the skip check reports
\* a changed ref only when the config is not the one last fetched.
C5_SkipCheckRefIsStoredRef ==
  /\ (last.kind = "fetched" /\ last.fetch.err = "" /\ HasExplicitRefInConfig(last.cfg)) =>
       last.post.meta.ref = ResolveRefForSkill(last.cfg)
  /\ (last.kind \in {"skipped", "denied", "fetched"} /\ ~last.forced
      /\ last.wasSynced = last.cfg) =>
       ~StartsWith(last.decision.reason, "ref has changed")

\* A whole-repository fetch whose URL embeds a ref that the config overrides.
C5_Witness ==
  /\ last.kind = "fetched" /\ last.fetch.err = ""
  /\ last.cfg.type = "GIT_REPO" /\ last.cfg.ref = "main"
  /\ ParseGitUrl(last.cfg.remote, "GIT_REPO").ref = "v1"
  /\ last.post.meta.ref = "main"

\* C6: the skip check never answers skip for a skill whose resolved ref is a
\* moving branch head (a branch name in config.ref, or embedded in a /blob/ or
\* /tree/ URL): a skill is skipped only when its ref is an immutable tag,
\* commit or revision.
C6_NeverSkipMovingRef ==
  (last.kind = "skipped" /\ last.decision.shouldSkip) =>
    ResolveRefForSkill(last.cfg) \notin Branches

\* C7: in each of the four fetchers the sidecar is written only as the last
\* step, after every content write, clone, copy and removal of the .git
\* directory of that fetch has completed without error (only the clean-up of
\* the temporary clone follows it), and a fetch that fails at an earlier step
\* neither writes nor updates the sidecar.
C7_SidecarWrittenLast ==
  last.kind = "fetched" =>
    LET t == last.fetch.trace
        saves == {k \in 1..Len(t) : t[k] = "saveMetadata"}
        contentSteps ==
          CASE last.cfg.type = "GIT_FILE" -> {"fetch", "ensureSkillDirectory", "writeSkillFile"}
            [] last.cfg.type = "GIST" -> {"fetch", "ensureSkillDirectory", "writeSkillFile"}
            [] last.cfg.type = "GIT_REPO" ->
                 {"ensureSkillDirectory", "clearDirectory", "clone", "removeDirectory"}
            [] last.cfg.type = "GIT_FOLDER" ->
                 {"clone", "ensureSkillDirectory", "clearDirectory", "copyDirectory"}
    IN /\ \A k \in saves :
            /\ \A j \in (k + 1)..Len(t) : t[j] = "removeTemp"
            /\ contentSteps \subseteq {t[j] : j \in 1..(k - 1)}
       /\ last.fetch.err = "" =>
            /\ saves # {}
            /\ last.post.meta.state = "json"
            /\ last.post.meta.contentHash = CalculateContentHash(last.post, "ok").hash
       /\ last.fetch.err # "" => last.post.meta \in {last.pre.meta, NoMeta}

\* A fetch over an existing sidecar that fails while writing the content.
C7_Witness ==
  /\ last.kind = "fetched" /\ last.fetch.err # ""
  /\ MetadataExists(last.pre)
  /\ last.fetch.trace[Len(last.fetch.trace)] = "writeSkillFile"
  /\ last.post.meta = last.pre.meta

\* C8: when a fetch terminates, either the directory content and the sidecar
\* both reflect the new fetch (success), or both are as they were before the
\* fetch started (failure).
C8_FetchAtomic ==
  last.kind = "fetched" =>
    IF last.fetch.err = ""
      THEN /\ last.post.meta.state = "json"
           /\ last.post.meta.contentHash = CalculateContentHash(last.post, "ok").hash
      ELSE /\ last.post.files = last.pre.files
           /\ last.post.meta = last.pre.meta

\* C9: after a successful fetch the skill directory holds exactly the files
\* that fetch produces (what it leaves in a directory that was empty) and the
\* sidecar.
C9_ExactlyFetchedFiles ==
  (last.kind = "fetched" /\ last.fetch.err = "") =>
    LET env == [failAt |-> "none", heads |-> heads, gist |-> last.gist]
    IN /\ last.post.files = Fetch(last.name, last.cfg, NoDir, env).dir.files
       /\ MetadataExists(last.post)

\* C10: every network call and clone of a fetch goes to a host that
\* validateTrustedUrl has passed before it, so none goes to a host that is not
\* on the allow-list.
C10_ValidatedBeforeNetwork ==
  last.kind = "fetched" =>
    \A k \in 1..Len(last.fetch.net) :
      /\ last.fetch.net[k].checked
      /\ ValidateTrustedUrl(last.fetch.net[k].host) = ""

\* C11: syncSkills returns exactly one outcome per configured skill entry, in
\* declaration order, whatever happens to individual skills: an invalid name, an
\* invalid config or a failed fetch of one skill is recorded as that skill's
\* failed outcome, and every later skill is still processed.
\* While syncSkills runs, results holds one outcome for each entry before idx,
\* named after that entry; the outcome of an entry with an invalid name or an
\* invalid config, and of an iteration whose fetch failed, is a failure carrying
\* the error; and as long as an entry is left, the next step of syncSkills is
\* the iteration for that entry, which adds its outcome to the ones before.
ReportedName(entry) ==
  IF SanitizeSkillName(entry.name).ok THEN SanitizeSkillName(entry.name).name
  ELSE entry.name

C11_OneOutcomePerEntryInOrder ==
  /\ [](pc = "syncing" =>
        /\ idx \in 1..(Len(config) + 1)
        /\ Len(results) = idx - 1
        /\ \A k \in 1..Len(results) :
             /\ results[k].skillName = ReportedName(config[k])
             /\ ~SanitizeSkillName(config[k].name).ok =>
                  ~results[k].success /\ results[k].error = "VALIDATION_ERROR"
             /\ SanitizeSkillName(config[k].name).ok
                  /\ ~ValidateSkillConfig(config[k].cfg) =>
                  ~results[k].success /\ results[k].error = "INVALID_CONFIG"
        /\ last.kind # "none" => results[Len(results)] = last.outcome
        /\ last.kind = "fetched" /\ last.fetch.err # "" =>
             ~last.outcome.success /\ last.outcome.error = last.fetch.err)
  /\ [][pc = "syncing" =>
         IF idx <= Len(config)
           THEN /\ pc' = "syncing" /\ idx' = idx + 1 /\ config' = config
                /\ SubSeq(results', 1, Len(results)) = results
                /\ Len(results') = Len(results) + 1
           ELSE pc' = "idle" /\ Len(results) = Len(config)]_vars

\* The first of two skills failed in its fetch, and the second was synced.
C11_Witness ==
  /\ pc = "syncing" /\ Len(config) = 2 /\ Len(results) = 2
  /\ ~results[1].success
  /\ results[1].error \notin {None, "VALIDATION_ERROR", "INVALID_CONFIG"}
  /\ results[2].success /\ ~results[2].skipped
  /\ last.kind = "fetched" /\ last.fetch.err = ""

\* C12: in dry-run mode syncSkills never invokes skip-check, the overwrite prompt
\* or any fetch strategy, and leaves every skill directory and sidecar unchanged;
\* each skill whose name and config are valid gets a success outcome that is not
\* marked skipped.
\* An iteration of a dry run has no decision of shouldSkipSync, asks nothing,
\* records no step of a fetch and leaves the directory as it found it; unless
\* the name or the config is invalid, its outcome is a success without the
\* skipped mark, a reason or an error.
C12_DryRunTouchesNothing ==
  pc = "syncing" /\ last.kind # "none" /\ last.dryRun =>
    /\ last.kind \in {"invalidName", "invalidConfig", "dryRun"}
    /\ last.decision = NoDecision /\ ~last.asked /\ last.fetch = NoFetch
    /\ last.post = last.pre
    /\ last.kind = "invalidName" \/ dirs[last.name] = last.pre
    /\ SanitizeSkillName(config[idx - 1].name).ok
         /\ ValidateSkillConfig(config[idx - 1].cfg) =>
         /\ last.kind = "dryRun"
         /\ last.outcome = Outcome(last.name, TRUE, FALSE, None, None)

\* A dry run over a skill that was synced to a pinned ref and then edited by the
\* user: a real run would ask before it overwrites.
C12_Witness ==
  /\ pc = "syncing" /\ last.kind = "dryRun" /\ last.outcome.success
  /\ last.pre.exists /\ MetadataExists(last.pre)
  /\ ShouldSkipSync(last.cfg, last.pre, "ok").needsInteraction

\* C13: for a skill that the caller forced (its name is in the force list, or
\* --force was given without names, which forces every configured skill), a
\* non-dry-run sync runs neither skip-check nor the overwrite prompt and always
\* invokes the fetch strategy, so local modifications are overwritten.
\* Every iteration of a real run for an entry whose key is in the force list,
\* and whose name and config are valid, is a fetch without a decision of
\* shouldSkipSync and without a prompt.
C13_ForcedAlwaysFetches ==
  pc = "syncing" /\ last.kind \notin {"none", "invalidName", "invalidConfig"}
    /\ ~last.dryRun /\ config[idx - 1].name \in run.forceSkills =>
    /\ last.kind = "fetched"
    /\ last.decision = NoDecision /\ ~last.asked

\* C14: in a non-interactive (no TTY), non-forced, non-dry-run sync, a skill
\* directory whose current content differs from the content recorded at its last
\* sync is never overwritten: the confirmation resolves to deny, the skill is
\* recorded as skipped, and its files and sidecar are left as they are.
\* Every such iteration over a directory whose sidecar is valid, names the
\* configured remote, type and resolved ref, and records a hash other than the
\* one of the present files, is a denied one: skipped, with the directory as it
\* was.
LocallyModified(cfg, dir) ==
  /\ dir.exists /\ LoadMetadata(dir) # NoMeta
  /\ LoadMetadata(dir).remote = cfg.remote /\ LoadMetadata(dir).type = cfg.type
  /\ LoadMetadata(dir).ref = ResolveRefForSkill(cfg)
  /\ CalculateContentHash(dir, "ok").hash # LoadMetadata(dir).contentHash

C14_UnattendedNeverOverwrites ==
  pc = "syncing" /\ last.kind \notin {"none", "invalidName", "invalidConfig"}
    /\ ~last.dryRun /\ ~last.forced /\ ~last.tty /\ last.io = "ok"
    /\ LocallyModified(last.cfg, last.pre) =>
    /\ last.kind = "denied"
    /\ last.outcome.success /\ last.outcome.skipped
    /\ last.post = last.pre

\* C15: calculateContentHash depends only on the set of (relative path, bytes)
\* pairs of the tracked files: it returns the same value for every enumeration
\* order of the directory entries, and its value is unchanged by creating,
\* modifying or deleting the metadata sidecar at the directory root.
\* The hash returned for a directory is the hash of every directory with the
\* same tracked files, whatever its sidecar and its hidden files are and in
\* whatever order its entries are returned; and rewriting the sidecar leaves
\* the hash as it was.
C15_HashOfTrackedFilesOnly ==
  /\ [](call.op = "calculateContentHash" =>
         \A m \in Sidecars, hidden \in HashContents \cup {Absent}, order \in Orders :
           /\ TrackedPairs([call.dir EXCEPT !.meta = m, !.files[".git/HEAD"] = hidden])
                = TrackedPairs(call.dir)
           /\ ContentHashOf([call.dir EXCEPT !.meta = m, !.files[".git/HEAD"] = hidden],
                            order) = call.hash)
  /\ [][RewriteSidecar => call'.hash = call.hash]_vars

\* The hash of a directory with a sidecar and two tracked files, which readdir
\* returned in another order than the sorted one.
C15_Witness ==
  /\ call.op = "calculateContentHash"
  /\ MetadataExists(call.dir)
  /\ Cardinality(TrackedPairs(call.dir)) = 2
  /\ Enumerate(call.dir, call.order) # SortFiles(Enumerate(call.dir, call.order))

\* C16: for any two directories whose tracked files differ in a relative path,
\* in a file's bytes, or in the presence or absence of a file, the byte stream
\* that calculateContentHash feeds into the digest differs, so the two hashes
\* differ; no two distinct sets of (relative path, bytes) pairs produce the same
\* digest input.
\* No directory whose tracked files differ from those of the hashed directory
\* has the same digest input, or the same hash.
C16_DigestInputInjective ==
  call.op = "calculateContentHash" =>
    \A dir \in HashDirs :
      TrackedPairs(dir) # TrackedPairs(call.dir) =>
        /\ DigestInput(dir, call.order) # call.input
        /\ ContentHashOf(dir, call.order) # call.hash

\* C17: loadMetadata never raises: when the sidecar is missing, cannot be
\* parsed, or lacks any of remote, type, lastSync or contentHash, it returns
\* not-found, and skip-check then returns do-not-skip so the skill is fully
\* re-synced; a record that lacks only the optional ref is still valid.
\* loadMetadata returns either not-found or the record of the sidecar; it
\* returns not-found when the sidecar is missing, unreadable or lacks a required
\* field, and then shouldSkipSync neither skips nor flags interaction and the
\* loop body goes on to the fetch; it returns the record when the sidecar is a
\* JSON object with all required fields, with or without a ref.
C17_LoadMetadataNotFound ==
  call.op = "loadMetadata" =>
    /\ call.loaded \in {NoMeta, call.dir.meta}
    /\ call.dir.meta.state # "json" \/ LacksRequired(call.dir.meta) =>
         /\ call.loaded = NoMeta
         /\ ~call.decision.shouldSkip /\ ~call.decision.needsInteraction
         /\ call.kind = "fetched"
    /\ call.dir.meta.state = "json" /\ ~LacksRequired(call.dir.meta) =>
         call.loaded = call.dir.meta /\ call.loaded # NoMeta

\* A sidecar that lacks only lastSync for a pinned skill whose files are as
\* they were stored: not-found, and the skill is synced again.
C17_Witness ==
  /\ call.op = "loadMetadata"
  /\ call.dir.meta.state = "json" /\ call.dir.meta.lastSync = None
  /\ call.dir.meta.remote = call.cfg.remote /\ call.dir.meta.type = call.cfg.type
  /\ call.dir.meta.ref = ResolveRefForSkill(call.cfg)
  /\ call.dir.meta.contentHash = CalculateContentHash(call.dir, "ok").hash
  /\ call.loaded = NoMeta
  /\ call.decision.reason = "metadata is invalid or corrupted"
  /\ call.kind = "fetched"

\* C18: for an operation that fails on its first k-1 attempts and succeeds on
\* attempt k, with k <= maxRetries, the retry executor invokes the operation
\* exactly k times and reports success with that attempt's result (for example:
\* fails twice then succeeds with maxRetries=3 gives exactly 3 invocations and
\* success).
\* A call whose operation first succeeds at attempt k <= maxRetries never makes
\* more than k invocations, never raises, and leads to the state in which it has
\* returned the result of attempt k after exactly k invocations.
C18_SucceedsAtAttemptK ==
  /\ [](call.op = "withRetry" /\ FirstSuccess(call.plan) \in 1..call.maxRetries =>
         /\ call.attempts <= FirstSuccess(call.plan)
         /\ call.status # "raised"
         /\ call.status = "returned" =>
              /\ call.attempts = FirstSuccess(call.plan)
              /\ call.result = ValueOf(FirstSuccess(call.plan)))
  /\ (call.op = "withRetry" /\ FirstSuccess(call.plan) \in 1..call.maxRetries)
       ~> (call.op = "withRetry" /\ call.status = "returned"
             /\ call.attempts = FirstSuccess(call.plan))

\* Two failures, then success, with maxRetries = 3: returned after 3 invocations.
C18_Witness ==
  /\ call.op = "withRetry" /\ call.maxRetries = 3
  /\ call.plan[1] # "ok" /\ call.plan[2] # "ok" /\ call.plan[3] = "ok"
  /\ call.status = "returned" /\ call.attempts = 3 /\ call.result = ValueOf(3)
  /\ Len(call.slept) = 2

\* C19: for an operation that fails or times out on every attempt, the retry
\* executor invokes it at most maxRetries times and then terminates by raising
\* the last failure wrapped with the label; it never retries without bound and
\* never reports success.
\* A call whose operation does not succeed in any of its first maxRetries
\* invocations never makes more than maxRetries invocations and never returns
\* a result, and it leads to the state in which it has raised, after exactly
\* maxRetries invocations, the failure of the last one wrapped with the label.
NeverSucceeds(c) == \A k \in 1..c.maxRetries : c.plan[k] # "ok"

C19_GivesUpAfterMaxRetries ==
  /\ [](call.op = "withRetry" /\ NeverSucceeds(call) =>
         /\ call.attempts <= call.maxRetries
         /\ call.status # "returned" /\ call.result = NoValue
         /\ Len(call.slept) <= call.maxRetries - 1
         /\ call.status = "raised" =>
              /\ call.attempts = call.maxRetries
              /\ call.error = Wrapped(call.label, call.plan[call.maxRetries],
                                      call.maxRetries))
  /\ (call.op = "withRetry" /\ NeverSucceeds(call))
       ~> (call.op = "withRetry" /\ call.status = "raised"
             /\ call.attempts = call.maxRetries)

\* Three attempts of a timed call, the last one timing out: raised.
C19_Witness ==
  /\ call.op = "withRetry" /\ call.timed /\ call.maxRetries = 3
  /\ NeverSucceeds(call) /\ call.plan[3] = "timeout"
  /\ call.status = "raised" /\ call.attempts = 3
  /\ call.error = Wrapped(call.label, "timeout", 3)
  /\ call.slept = <<HTTP_INITIAL_BACKOFF, 2 * HTTP_INITIAL_BACKOFF>>

\* C20: gist target-file selection, for every file set and filename setting: if
\* a filename is configured, that file is chosen, and the fetch fails when the
\* gist lacks it even if SKILL.md or another markdown file is present; otherwise
\* SKILL.md is chosen if present; otherwise the first file, in the returned
\* order, whose name ends in .md or .markdown (case-insensitive); if none
\* matches, the fetch fails with 'no markdown file found' and nothing is written.
\* The index of the file the rules choose is 0 when they choose none. A fetch
\* with a chosen file writes that file's content as the skill file and
\* succeeds; a fetch without one fails at the selection with FETCH_FAILED and
\* leaves the directory as it was.
GistIndexOf(gist, n) ==
  IF \E k \in 1..Len(gist) : gist[k].filename = n
    THEN CHOOSE k \in 1..Len(gist) : gist[k].filename = n
    ELSE 0
GistMarkdownNames == {"SKILL.md", "a.md", "B.MD", "c.markdown"}
GistFirstMarkdown(gist) ==
  IF \E k \in 1..Len(gist) : gist[k].filename \in GistMarkdownNames
    THEN CHOOSE k \in 1..Len(gist) :
           /\ gist[k].filename \in GistMarkdownNames
           /\ \A j \in 1..(k - 1) : gist[j].filename \notin GistMarkdownNames
    ELSE 0
GistChoice(gist, filename) ==
  IF filename # None THEN GistIndexOf(gist, filename)
  ELSE IF GistIndexOf(gist, DEFAULT_SKILL_FILENAME) # 0
    THEN GistIndexOf(gist, DEFAULT_SKILL_FILENAME)
  ELSE GistFirstMarkdown(gist)

C20_GistTargetSelection ==
  call.op = "fetchGist" =>
    IF GistChoice(call.gist, call.filename) # 0
      THEN /\ call.fetch.err = ""
           /\ call.after.exists
           /\ call.after.files[DEFAULT_SKILL_FILENAME]
                = call.gist[GistChoice(call.gist, call.filename)].content
      ELSE /\ call.fetch.err = "FETCH_FAILED"
           /\ call.fetch.trace[Len(call.fetch.trace)] = "selectFile"
           /\ call.after = call.before

\* No filename configured and no SKILL.md: the file with the upper-case
\* extension comes before another markdown file and is the one written.
C20_Witness ==
  /\ call.op = "fetchGist" /\ call.filename = None
  /\ Len(call.gist) = 3
  /\ call.gist[1].filename = "notes.txt" /\ call.gist[2].filename = "B.MD"
  /\ call.gist[3].filename = "a.md"
  /\ call.fetch.err = ""
  /\ call.after.files[DEFAULT_SKILL_FILENAME] = ContentOf("B.MD")

\* C21: in GIT_FOLDER fetch, for every URL-embedded subfolder path that, joined
\* to the temporary clone root, resolves to a location outside that root, the
\* fetch fails with a validation error, and the destination skill directory is
\* neither cleared nor written.
\* A path lies outside the clone when the segments it resolves to do not begin
\* with those of the clone root. A fetch with such a path fails; unless the
\* clone itself failed, it fails with VALIDATION_ERROR at the check of the source
\* path; and it makes no step on the skill directory, which is as it was.
IsSegmentPrefix(base, target) ==
  Len(base) <= Len(target) /\ SubSeq(target, 1, Len(base)) = base
OutsideClone(path) == ~IsSegmentPrefix(TempDir, ResolvePath(<<>>, TempDir \o path))
FolderPathOf(c) == SubSeq(c.config.remote.segs, 5, Len(c.config.remote.segs))
StepsOf(c) == {c.fetch.trace[k] : k \in 1..Len(c.fetch.trace)}

C21_FolderPathOutsideClone ==
  call.op = "fetchGitFolder" /\ OutsideClone(FolderPathOf(call)) =>
    /\ call.fetch.err # ""
    /\ call.failAt # "clone" =>
         /\ call.fetch.err = "VALIDATION_ERROR"
         /\ call.fetch.trace[Len(call.fetch.trace) - 1] = "validateSourcePath"
    /\ StepsOf(call) \cap {"ensureSkillDirectory", "clearDirectory", "copyDirectory",
                           "calculateContentHash", "saveMetadata"} = {}
    /\ call.after = call.before

\* A path that goes into the clone and then two levels up, for a skill directory
\* that holds a skill: the clone was made, the fetch failed, the skill is there.
C21_Witness ==
  /\ call.op = "fetchGitFolder" /\ FolderPathOf(call) = <<"skills", "..", "..", "x">>
  /\ call.before.exists /\ call.name = <<"a">>
  /\ "clone" \in StepsOf(call)
  /\ call.fetch.err = "VALIDATION_ERROR"
  /\ call.after = call.before


\* C22: every fetchGitFolder invocation that reaches the clone step removes its
\* temporary clone before it returns or raises, on every exit path (success,
\* clone failure after retries, path-validation failure, copy failure, metadata
\* failure), so that no temporary clone exists after the invocation terminates,
\* given that the removal itself succeeds.
\* At the step in which fetchGitFolder returns or throws, if the clone was
\* started and the removal does not fail, the removal was the last thing done
\* and no temporary clone is left.
ClonedAndRemovable(c) ==
  c.op = "fetchGitFolder" /\ "clone" \in StepsOf(c) /\ c.failAt # "removeTemp"

C22_TempCloneRemovedOnEveryExit ==
  [][ClonedAndRemovable(call) /\ call'.op = "none" =>
       /\ call.fetch.trace[Len(call.fetch.trace)] = "removeTemp"
       /\ ~call.fetch.tmp]_vars

\* The copy into the skill directory failed after the clone and the directory
\* was cleared: the fetch throws GIT_ERROR and the clone is gone.
C22_Witness ==
  /\ ClonedAndRemovable(call) /\ call.failAt = "copyDirectory"
  /\ call.fetch.err = "GIT_ERROR"
  /\ "clearDirectory" \in StepsOf(call)
  /\ ~call.fetch.tmp


\* C28: in GIT_REPO and GIT_FOLDER fetch, the check that the destination skill
\* directory lies inside skillsPath is performed before the directory is
\* cleared, so a directory that fails the check is never emptied.
\* A call of fetchGitRepo or fetchGitFolder whose destination fails the check
\* has not cleared the directory, and the files in it are those it had.
DestinationFailsCheck(c) ==
  /\ c.op \in {"fetchGitRepo", "fetchGitFolder"}
  /\ ValidateFilePath(SkillsPath, SkillDirPath(c.name)) # ""

ResponseCame(c) ==
  c.op \in {"fetchGitFile", "fetchGist"} /\ c.failAt \notin {"fetch", "responseOk"}
OverCeiling(c) ==
  \/ c.op = "fetchGitFile" /\ c.declared # NoContentLength /\ c.declared >= MAX_FILE_SIZE + 1
  \/ c.body >= MAX_FILE_SIZE + 1

C23_OversizedFileRejectedBeforeWrite ==
  ResponseCame(call) =>
    /\ OverCeiling(call) =>
         /\ call.fetch.err = "FILE_SIZE_EXCEEDED"
         /\ StepsOf(call) \cap {"ensureSkillDirectory", "writeSkillFile",
                                "calculateContentHash", "saveMetadata"} = {}
         /\ call.after = call.before
    /\ ~OverCeiling(call) =>
         /\ call.fetch.err # "FILE_SIZE_EXCEEDED"
         /\ call.failAt = "none" =>
              /\ call.fetch.err = ""
              /\ call.after.files[DEFAULT_SKILL_FILENAME] # Absent
              /\ call.after.meta.state = "json"

\* A body one byte over the ceiling, with no content-length declared, for a
\* skill directory that holds a skill: the fetch threw and the skill is intact.
C23_Witness ==
  /\ call.op = "fetchGitFile" /\ call.body = MAX_FILE_SIZE + 1
  /\ call.declared = NoContentLength
  /\ call.before.exists /\ call.before.files[DEFAULT_SKILL_FILENAME] # Absent
  /\ call.fetch.err = "FILE_SIZE_EXCEEDED"
  /\ call.after = call.before


\* The keys of the context object of the error a strategy throws when the
\* given step fails. An error that is already a SkillManagerError is rethrown
\* by the catch block as it is; any other is wrapped with the skill name and
\* the remote (and the ref in fetchGitFolder).
ErrorContext(type, step) ==
  CASE step = "requirePath" -> {"remote", "hasPath"}
    [] step = "responseOk" /\ type = "GIT_FILE" -> {"url", "status", "statusText"}
    [] step = "responseOk" /\ type = "GIST" -> {"gistId", "status", "statusText"}
    [] step = "selectFile" -> {"gistId", "availableFiles", "expectedExtensions"}
    [] step = "validateFileSize" -> {"fileSizeMB", "limitMB"}
    [] step \in {"validateSourcePath", "validateFilePath"} -> {"basePath", "targetPath"}
    [] step = "validateTrustedUrl" -> {"hostname", "allowedDomains"}
    [] step \in {"parseGitUrl", "parseGistUrl"} -> {"url"}
    [] step \in {"calculateContentHash", "saveMetadata"} -> {"skillDir"}
    [] OTHER -> IF type = "GIT_FOLDER" THEN {"skillName", "remote", "ref"}
                ELSE {"skillName", "remote"}

\* The step at which a failed call threw: the last one before the finally block.
ThrowingStep(c) ==
  IF c.fetch.trace[Len(c.fetch.trace)] = "removeTemp"
    THEN c.fetch.trace[Len(c.fetch.trace) - 1]
  ELSE c.fetch.trace[Len(c.fetch.trace)]

\* C24: every failure raised by any of the four fetch strategies is a
\* classified error carrying the skill name and the remote in its context,
\* whichever step failed (URL parsing, missing path, allow-list check, non-2xx
\* response, size check, clone, copy, metadata write).
\* The error of a failed call of a fetcher has the keys skillName and remote in
\* its context.
C24_ErrorCarriesSkillNameAndRemote ==
  call.op \in {"fetchGitFolder", "fetchGitRepo", "fetchGitFile", "fetchGist"}
    /\ call.fetch.err # "" =>
      {"skillName", "remote"} \subseteq ErrorContext(call.config.type, ThrowingStep(call))


\* C25: shouldSkipSync never raises: a remote URL that cannot be parsed, a
\* corrupt sidecar, or a failure while computing the content hash each yield a
\* do-not-skip decision without needsInteraction instead of an error reaching
\* the orchestrator.
\* The decision of a skip check made with an unparsable remote, over a corrupt
\* sidecar, or with a read failing while the hash is computed, is not to skip
\* and not to ask.
InternalFailure(c) ==
  \/ ~ParseGitUrl(c.cfg.remote, c.cfg.type).ok
  \/ c.dir.meta.state = "corrupt"
  \/ c.io = "readFile"

RawNameOfLast == config[idx - 1].name
IsSafeName(n) == n # <<>> /\ \A k \in 1..Len(n) : n[k] \in SafeChars
\* A key without the spaces before its first and after its last other character.
NonSpaces(n) == {k \in 1..Len(n) : n[k] # " "}
Stripped(n) ==
  IF NonSpaces(n) = {} THEN <<>>
  ELSE SubSeq(n, CHOOSE i \in NonSpaces(n) : \A k \in NonSpaces(n) : i <= k,
                 CHOOSE j \in NonSpaces(n) : \A k \in NonSpaces(n) : k <= j)
IsDirectChild(n) ==
  /\ IsSegmentPrefix(SkillsPath, ResolvePath(<<>>, SkillDirPath(n)))
  /\ Len(ResolvePath(<<>>, SkillDirPath(n))) = Len(SkillsPath) + 1
\* The iteration pushed a failure and made neither a skip check nor a fetch.
FailedUntouched ==
  /\ last.kind = "invalidName" /\ ~last.outcome.success
  /\ last.decision = NoDecision /\ last.fetch = NoFetch
  /\ last.post = last.pre
\* The name the iteration worked with is safe and its directory is a direct
\* child of skillsPath.
PassedSafeName ==
  last.kind \notin {"none", "invalidName"} =>
    IsSafeName(last.name) /\ IsDirectChild(last.name)

\* C26 (as stated): syncSkills passes to skip-check and to the fetch strategies
\* only skill names that consist solely of letters, digits, '-' and '_', so
\* every directory it reads, clears or writes is a direct child of skillsPath;
\* any other name yields a failed outcome for that skill without any
\* skip-check or fetch.
C26_AnyOtherNameFails ==
  pc = "syncing" /\ idx > 1 =>
    /\ PassedSafeName
    /\ ~IsSafeName(RawNameOfLast) => FailedUntouched

\* C26 (amended): syncSkills passes to skip-check and to the fetch strategies
\* only names of letters, digits, '-' and '_', whose directory is a direct
\* child of skillsPath; a key that, with the whitespace around it trimmed, is
\* not such a name yields a failed outcome without skip-check or fetch, and a
\* key that is such a name after trimming is processed under the trimmed name.
C26_UnsafeAfterTrimFails ==
  pc = "syncing" /\ idx > 1 =>
    /\ PassedSafeName
    /\ ~IsSafeName(Stripped(RawNameOfLast)) => FailedUntouched
    /\ IsSafeName(Stripped(RawNameOfLast)) =>
         last.kind \notin {"none", "invalidName"} /\ last.name = Stripped(RawNameOfLast)

\* The key 'b ' was fetched into the directory of the name 'b', a direct child
\* of skillsPath.
C26_Witness ==
  /\ pc = "syncing" /\ idx > 1 /\ RawNameOfLast = <<"b", " ">>
  /\ last.kind = "fetched" /\ last.fetch.err = ""
  /\ last.name = <<"b">> /\ IsDirectChild(last.name)


\* C27: when the set/add command fails at any step, rollback removes only what
\* this invocation created: a skill directory that already existed before the
\* command is left in place with its content, and a config file that already
\* existed is left unchanged; a skill directory or config file created by this
\* invocation is removed.
\* After a failed command, a skill directory that was there is there with the
\* files it had, a config file that was there is as it was, and one that was
\* not there is not there.
C27_RollbackKeepsWhatExisted ==
  call.op = "addCommand" /\ call.result.err # "" =>
    /\ call.before.exists =>
         call.result.dir.exists /\ call.result.dir.files = call.before.files
    /\ ~call.before.exists => ~call.result.dir.exists
    /\ call.fileBefore.exists => call.result.file = call.fileBefore
    /\ ~call.fileBefore.exists => ~call.result.file.exists

\* C30: after a successful first-time set (the config file did not exist and
\* was created by the command), the skill's content and sidecar are in the
\* directory that sync uses for that skill, <skillsPath written into the new
\* config>/<skill name>, so a following sync of that skill, when pinned and
\* unmodified, skips it instead of fetching it again.
\* After a successful command that created the config file for a pinned skill,
\* the directory a sync works on holds the skill file and the sidecar, and the
\* skip check of that sync says skip.
C30_FirstSetThenSyncSkips ==
  call.op = "addCommand" /\ call.result.err = "" /\ ~call.fileBefore.exists
    /\ HasExplicitRefInConfig(call.cfg) =>
      /\ SyncDir(call.result).files[DEFAULT_SKILL_FILENAME] # Absent
      /\ SyncDir(call.result).meta.state = "json"
      /\ ShouldSkipSync(call.cfg, SyncDir(call.result), "ok").shouldSkip


\* C29: two skill directories that differ only in the contents of
\* sub-directories whose names start with '.' (at any depth) get the same
\* content hash, so after a pinned sync, edits made only inside such
\* directories never set needsInteraction and the skill is still skipped; files
\* whose own name starts with '.' but that lie in a non-hidden directory are
\* hashed and do trigger drift detection.
\* When the file changed after the sync lies in .git or in docs/.cache, the
\* hash is the one before the change and the skip check says skip without
\* asking; when it is any other file (.env and docs/.env among them), the hash
\* differs and the skip check says do not skip, with needsInteraction.
BelowHiddenDirectory == {".git/HEAD", "docs/.cache/x"}

C29_HiddenDirectoriesNotHashed ==
  call.op = "skipCheckAfterEdit" =>
    /\ call.path \in BelowHiddenDirectory =>
         /\ call.hashAfter = call.hashBefore
         /\ call.decision.shouldSkip /\ ~call.decision.needsInteraction
    /\ call.path \notin BelowHiddenDirectory =>
         /\ call.hashAfter # call.hashBefore
         /\ ~call.decision.shouldSkip /\ call.decision.needsInteraction

\* A file was created in docs/.cache of a skill that has a skill file and the
\* dot-file docs/.env: the skill is skipped.
C29_Witness ==
  /\ call.op = "skipCheckAfterEdit" /\ call.path = "docs/.cache/x"
  /\ call.synced.files["docs/.cache/x"] = Absent
  /\ call.synced.files["docs/.env"] # Absent
  /\ call.synced.files[DEFAULT_SKILL_FILENAME] # Absent
  /\ call.decision.shouldSkip

====
